---- MODULE Spec2Model ----
(***************************************************************************)
(* The webhook ingestion pipeline of choochoo: WebhookHandler              *)
(* (internal/handlers/webhook.go), the event allow-list                    *)
(* (internal/webhook/types.go) and the webhook_events table                *)
(* (sql/migrations/001_webhook_events.sql) with its CreateWebhookEvent     *)
(* query, and around it the process: NewWebhookServer and Start            *)
(* (internal/server/server.go), NewConnection                              *)
(* (internal/database/connection.go) and HandleRoot                        *)
(* (internal/handlers/root.go).                                            *)
(*                                                                         *)
(* Strings that the code inspects character by character (the signature    *)
(* header, hex text) are sequences of one-character strings; a secret is   *)
(* the sequence of its bytes; a request body is an opaque byte string,     *)
(* written as the TLA+ string of its text.                                 *)
(***************************************************************************)
EXTENDS Integers, Sequences, FiniteSets, TLC

(***************************************************************************)
(* Bounds of the model.                                                    *)
(***************************************************************************)
\* sha256.BlockSize is 64 and sha256.Size is 32 in the library; the model
\* keeps the structure of HMAC's key handling and of the hex text with
\* shorter blocks and digests.
BlockSize == 3
Size == 2
\* Requests accepted by the server in one behaviour.
MaxRequests == 3

Range(s) == {s[i] : i \in DOMAIN s}

(***************************************************************************)
(* encoding/hex                                                            *)
(***************************************************************************)
hextable == <<"0", "1", "2", "3", "4", "5", "6", "7",
              "8", "9", "a", "b", "c", "d", "e", "f">>

UpperHex == <<"0", "1", "2", "3", "4", "5", "6", "7",
              "8", "9", "A", "B", "C", "D", "E", "F">>

\* hex.EncodeToString: two lowercase digits per byte, high nibble first.
EncodeToString(bytes) ==
    [i \in 1..(2 * Len(bytes)) |->
        LET b == bytes[(i + 1) \div 2]
        IN  IF i % 2 = 1 THEN hextable[(b \div 16) + 1]
                         ELSE hextable[(b % 16) + 1]]

\* fromHexChar: digits, a-f and A-F are accepted.
IsHexChar(c) == c \in Range(hextable) \cup Range(UpperHex)

fromHexChar(c) ==
    IF c \in Range(hextable)
    THEN (CHOOSE i \in DOMAIN hextable : hextable[i] = c) - 1
    ELSE (CHOOSE i \in DOMAIN UpperHex : UpperHex[i] = c) - 1

\* hex.DecodeString: an error on a character that is no hex digit or on an
\* odd length; otherwise one byte per pair of digits.
DecodeString(s) ==
    IF (\E i \in DOMAIN s : ~IsHexChar(s[i])) \/ Len(s) % 2 = 1
    THEN [err |-> TRUE, bytes |-> <<>>]
    ELSE [err |-> FALSE,
          bytes |-> [i \in 1..(Len(s) \div 2) |->
                        16 * fromHexChar(s[2 * i - 1]) + fromHexChar(s[2 * i])]]

(***************************************************************************)
(* strings                                                                 *)
(***************************************************************************)
Sha256Prefix == <<"s", "h", "a", "2", "5", "6", "=">>

HasPrefix(s, prefix) ==
    /\ Len(s) >= Len(prefix)
    /\ SubSeq(s, 1, Len(prefix)) = prefix

(***************************************************************************)
(* Request bodies.  A body is the text the client sent; BodyTexts lists    *)
(* the bodies of the model.                                                *)
(***************************************************************************)
EmptyBody == ""
NotJSON == "invalid json"
EmptyObject == "{}"
FullEvent ==
    "{\"action\":\"opened\",\"repository\":{\"full_name\":\"a/b\"},\"sender\":{\"login\":\"u\"}}"
OtherEvent ==
    "{\"action\":\"closed\",\"repository\":{\"full_name\":\"c/d\"},\"sender\":{\"login\":\"v\"}}"
NonStringFields ==
    "{\"repository\":{\"full_name\":1},\"sender\":{\"login\":true}}"
NoAction == "{\"repository\":{\"full_name\":\"a/b\"},\"sender\":{}}"
NumberAction == "{\"action\":1}"
StringRepository == "{\"repository\":\"a/b\"}"
JSONArray == "[]"
JSONNull == "null"
\* A sender whose login is the text the handler uses for a missing login.
UnknownSender ==
    "{\"action\":\"opened\",\"repository\":{\"full_name\":\"a/b\"},\"sender\":{\"login\":\"unknown\"}}"

BodyTexts ==
    <<EmptyBody, NotJSON, EmptyObject, FullEvent, OtherEvent, NonStringFields,
      NoAction, NumberAction, StringRepository, JSONArray, JSONNull,
      UnknownSender>>

BodyIndex(body) == CHOOSE i \in DOMAIN BodyTexts : BodyTexts[i] = body

(***************************************************************************)
(* crypto/hmac over crypto/sha256.  The hash is idealised: within the      *)
(* bounds of the model two different (block key, message) pairs never      *)
(* have the same digest (HashInjective below is checked).  The key         *)
(* handling is that of hmac.New: a key longer than the block is replaced   *)
(* by its hash, and the key is then padded with zero bytes to the block.   *)
(***************************************************************************)
RECURSIVE Pow256(_)
Pow256(n) == IF n = 0 THEN 1 ELSE 256 * Pow256(n - 1)

\* The number of digests of Size bytes.
Modulus == Pow256(Size)

ToBytes(n) == [i \in 1..Size |-> (n \div Pow256(Size - i)) % 256]

RECURSIVE ByteCode(_)
ByteCode(bytes) ==
    IF Len(bytes) = 0 THEN 0
    ELSE (ByteCode(SubSeq(bytes, 1, Len(bytes) - 1)) * 31
            + bytes[Len(bytes)] + 1) % Modulus

\* sha256.Sum256 of a byte sequence (used for long keys only).
Sum256(bytes) == ToBytes((ByteCode(bytes) * 7 + 3) % Modulus)

\* The key as hmac.New lays it out in the ipad/opad blocks.
BlockKey(key) ==
    LET k == IF Len(key) > BlockSize THEN Sum256(key) ELSE key
    IN  [i \in 1..BlockSize |-> IF i <= Len(k) THEN k[i] ELSE 0]

\* mac := hmac.New(sha256.New, key); mac.Write(payload); mac.Sum(nil)
HMACSum(key, payload) ==
    ToBytes((ByteCode(BlockKey(key)) * 17 + BodyIndex(payload) * 8191 + 12345)
                % Modulus)

\* hmac.Equal: equal length and equal contents (in constant time).
hmacEqual(mac1, mac2) == mac1 = mac2

(***************************************************************************)
(* Faulty variants of validateSignature.                                   *)
(***************************************************************************)
\* signature[6:] instead of signature[7:]: the "=" stays in the digest text.
validateSignature_OffByOne(wh, payload, signature) ==
    IF wh.webhookSecret = <<>> THEN TRUE
    ELSE IF ~HasPrefix(signature, Sha256Prefix) THEN FALSE
    ELSE LET provided == DecodeString(SubSeq(signature, 7, Len(signature)))
             expected == DecodeString(EncodeToString(HMACSum(wh.webhookSecret, payload)))
         IN  ~provided.err /\ ~expected.err /\ hmacEqual(provided.bytes, expected.bytes)

\* The decoded digest is compared with itself.
validateSignature_AnyDigest(wh, payload, signature) ==
    IF wh.webhookSecret = <<>> THEN TRUE
    ELSE IF ~HasPrefix(signature, Sha256Prefix) THEN FALSE
    ELSE LET provided == DecodeString(SubSeq(signature, 8, Len(signature)))
         IN  ~provided.err /\ hmacEqual(provided.bytes, provided.bytes)

\* No shortcut for the empty secret.
validateSignature_NoSkip(wh, payload, signature) ==
    IF ~HasPrefix(signature, Sha256Prefix) THEN FALSE
    ELSE LET provided == DecodeString(SubSeq(signature, 8, Len(signature)))
             expected == DecodeString(EncodeToString(HMACSum(wh.webhookSecret, payload)))
         IN  ~provided.err /\ ~expected.err /\ hmacEqual(provided.bytes, expected.bytes)

\* strings.TrimPrefix instead of the HasPrefix test: a header without the
\* prefix is taken as the digest text.
validateSignature_TrimPrefix(wh, payload, signature) ==
    IF wh.webhookSecret = <<>> THEN TRUE
    ELSE LET text == IF HasPrefix(signature, Sha256Prefix)
                     THEN SubSeq(signature, 8, Len(signature)) ELSE signature
             provided == DecodeString(text)
             expected == DecodeString(EncodeToString(HMACSum(wh.webhookSecret, payload)))
         IN  ~provided.err /\ ~expected.err /\ hmacEqual(provided.bytes, expected.bytes)

\* Characters that are no hex digits are dropped before decoding.
validateSignature_Lenient(wh, payload, signature) ==
    IF wh.webhookSecret = <<>> THEN TRUE
    ELSE IF ~HasPrefix(signature, Sha256Prefix) THEN FALSE
    ELSE LET provided == DecodeString(SelectSeq(SubSeq(signature, 8, Len(signature)),
                                                IsHexChar))
             expected == DecodeString(EncodeToString(HMACSum(wh.webhookSecret, payload)))
         IN  ~provided.err /\ ~expected.err /\ hmacEqual(provided.bytes, expected.bytes)

\* The hex texts are compared instead of the decoded bytes.
validateSignature_StringCompare(wh, payload, signature) ==
    IF wh.webhookSecret = <<>> THEN TRUE
    ELSE IF ~HasPrefix(signature, Sha256Prefix) THEN FALSE
    ELSE SubSeq(signature, 8, Len(signature))
            = EncodeToString(HMACSum(wh.webhookSecret, payload))

\* The digest of the header is compared with the beginning of the expected
\* digest, over the length of the header's digest only.
validateSignature_PrefixCompare(wh, payload, signature) ==
    IF wh.webhookSecret = <<>> THEN TRUE
    ELSE IF ~HasPrefix(signature, Sha256Prefix) THEN FALSE
    ELSE LET provided == DecodeString(SubSeq(signature, 8, Len(signature)))
             expected == DecodeString(EncodeToString(HMACSum(wh.webhookSecret, payload)))
         IN  /\ ~provided.err /\ ~expected.err
             /\ Len(provided.bytes) <= Len(expected.bytes)
             /\ hmacEqual(provided.bytes,
                          SubSeq(expected.bytes, 1, Len(provided.bytes)))

(***************************************************************************)
(* WebhookHandler.validateSignature.  wh is the handler: its webhookSecret *)
(* and its dbConn.                                                         *)
(***************************************************************************)
validateSignature(wh, payload, signature) ==
    IF wh.webhookSecret = <<>> THEN TRUE
    ELSE IF ~HasPrefix(signature, Sha256Prefix) THEN FALSE
    ELSE LET providedSignature == SubSeq(signature, 8, Len(signature))
             expectedSignature == EncodeToString(HMACSum(wh.webhookSecret, payload))
             provided == DecodeString(providedSignature)
             expected == DecodeString(expectedSignature)
         IN  IF provided.err THEN FALSE
             ELSE IF expected.err THEN FALSE
             ELSE hmacEqual(provided.bytes, expected.bytes)

\* The helper of the handler's tests: the header a sender holding `secret`
\* computes for `payload`.
generateSignature(payload, secret) ==
    Sha256Prefix \o EncodeToString(HMACSum(secret, payload))

(***************************************************************************)
(* internal/webhook: the allow-list and the parsed view of a payload.      *)
(***************************************************************************)
\* The package-level map of the event types to store.  It is a variable of
\* the package: any code of the program could write it.
VARIABLE SupportedEventTypes

\* The map literal the variable is initialised with.
SupportedEventTypesLiteral ==
    [e \in {"push", "issue_comment", "pull_request"} |-> TRUE]

\* Faulty variant: ping is a stored type too.
IsSupportedEvent_WithPing(eventType) ==
    \/ eventType \in DOMAIN SupportedEventTypes /\ SupportedEventTypes[eventType]
    \/ eventType = "ping"

\* The map indexed with the event type: a key that is absent reads false.
IsSupportedEvent(eventType) ==
    eventType \in DOMAIN SupportedEventTypes /\ SupportedEventTypes[eventType]

\* A Go map[string]interface{}: nil, or the set of its entries, each a key
\* with the dynamic type and the value of what it holds.
NilMap == [nil |-> TRUE, entries |-> {}]
Map(entries) == [nil |-> FALSE, entries |-> entries]
Entry(k, t, v) == [key |-> k, type |-> t, value |-> v]

GitHubEvent(action, repository, sender) ==
    [err |-> FALSE, Action |-> action, Repository |-> repository, Sender |-> sender]

UnmarshalError ==
    [err |-> TRUE, Action |-> "", Repository |-> NilMap, Sender |-> NilMap]

\* var event webhook.GitHubEvent: the zero value.
ZeroEvent == GitHubEvent("", NilMap, NilMap)

\* Faulty variant: no input is read as the empty object.
Unmarshal_EmptyAccepted(body) ==
    CASE body \in {EmptyBody, EmptyObject, JSONNull} -> GitHubEvent("", NilMap, NilMap)
      [] body = FullEvent ->
            GitHubEvent("opened",
                        Map({Entry("full_name", "string", "a/b")}),
                        Map({Entry("login", "string", "u")}))
      [] OTHER -> UnmarshalError

\* json.Unmarshal(body, &event) for event of type webhook.GitHubEvent, on
\* each body of the model.
Unmarshal(body) ==
    CASE body = EmptyBody -> UnmarshalError
      [] body = NotJSON -> UnmarshalError
      [] body = EmptyObject -> GitHubEvent("", NilMap, NilMap)
      [] body = FullEvent ->
            GitHubEvent("opened",
                        Map({Entry("full_name", "string", "a/b")}),
                        Map({Entry("login", "string", "u")}))
      [] body = OtherEvent ->
            GitHubEvent("closed",
                        Map({Entry("full_name", "string", "c/d")}),
                        Map({Entry("login", "string", "v")}))
      [] body = NonStringFields ->
            GitHubEvent("",
                        Map({Entry("full_name", "float64", "1")}),
                        Map({Entry("login", "bool", "true")}))
      [] body = NoAction ->
            GitHubEvent("",
                        Map({Entry("full_name", "string", "a/b")}),
                        Map({}))
      \* a JSON number cannot be stored in the string field Action
      [] body = NumberAction -> UnmarshalError
      \* a JSON string cannot be stored in the map field Repository
      [] body = StringRepository -> UnmarshalError
      \* a JSON array cannot be stored in a struct
      [] body = JSONArray -> UnmarshalError
      \* null leaves the struct as it is
      [] body = JSONNull -> GitHubEvent("", NilMap, NilMap)
      [] body = UnknownSender ->
            GitHubEvent("opened",
                        Map({Entry("full_name", "string", "a/b")}),
                        Map({Entry("login", "string", "unknown")}))

\* Faulty variant: a value of another type is formatted as text.
StringField_AnyType(m, key) ==
    IF \E e \in m.entries : e.key = key
    THEN [ok |-> TRUE, value |-> (CHOOSE e \in m.entries : e.key = key).value]
    ELSE [ok |-> FALSE, value |-> ""]

\* m[key].(string): the value and whether the key holds a string.
StringField(m, key) ==
    IF \E e \in m.entries : e.key = key /\ e.type = "string"
    THEN [ok |-> TRUE,
          value |-> (CHOOSE e \in m.entries : e.key = key /\ e.type = "string").value]
    ELSE [ok |-> FALSE, value |-> ""]

(***************************************************************************)
(* The webhook_events table and the CreateWebhookEvent query.              *)
(***************************************************************************)
\* pgtype.Text: the zero value is SQL NULL.
NullText == [String |-> "", Valid |-> FALSE]
Text(str) == [String |-> str, Valid |-> TRUE]

\* The payload column is JSONB: the database parses the text it is given
\* and keeps the value, not the text.  Read back, an object has its keys
\* ordered by length and then by bytes, with a space after each colon and
\* each comma.  Text that is not JSON is refused.
JsonbValue(text) == [err |-> FALSE, text |-> text]
JsonbError == [err |-> TRUE, text |-> ""]

Jsonb(text) ==
    CASE text = EmptyBody -> JsonbError
      [] text = NotJSON -> JsonbError
      [] text = EmptyObject -> JsonbValue("{}")
      [] text = FullEvent -> JsonbValue(
            "{\"action\": \"opened\", \"sender\": {\"login\": \"u\"}, \"repository\": {\"full_name\": \"a/b\"}}")
      [] text = OtherEvent -> JsonbValue(
            "{\"action\": \"closed\", \"sender\": {\"login\": \"v\"}, \"repository\": {\"full_name\": \"c/d\"}}")
      [] text = NonStringFields -> JsonbValue(
            "{\"sender\": {\"login\": true}, \"repository\": {\"full_name\": 1}}")
      [] text = NoAction -> JsonbValue(
            "{\"sender\": {}, \"repository\": {\"full_name\": \"a/b\"}}")
      [] text = NumberAction -> JsonbValue("{\"action\": 1}")
      [] text = StringRepository -> JsonbValue("{\"repository\": \"a/b\"}")
      [] text = JSONArray -> JsonbValue("[]")
      [] text = JSONNull -> JsonbValue("null")
      [] text = UnknownSender -> JsonbValue(
            "{\"action\": \"opened\", \"sender\": {\"login\": \"unknown\"}, \"repository\": {\"full_name\": \"a/b\"}}")

\* INSERT INTO webhook_events (...) VALUES ($1..$6) RETURNING *: the row the
\* statement adds, with the id drawn from the table's sequence.
NewRow(id, params) ==
    [id |-> id,
     delivery_id |-> params.DeliveryID,
     event_type |-> params.EventType,
     repository_name |-> params.RepositoryName,
     sender_login |-> params.SenderLogin,
     action |-> params.Action,
     payload |-> Jsonb(params.Payload).text]

\* Faulty variant: the column without its UNIQUE constraint.
UniqueViolation_None(table, params) == FALSE

\* Faulty variant: the constraint does not apply to the empty delivery id
\* (as it would not to NULL).
UniqueViolation_NonEmpty(table, params) ==
    /\ params.DeliveryID # ""
    /\ \E row \in table : row.delivery_id = params.DeliveryID

\* delivery_id VARCHAR(255) NOT NULL UNIQUE.
UniqueViolation(table, params) ==
    \E row \in table : row.delivery_id = params.DeliveryID

\* The statement executed by the database: the serial id is drawn first,
\* then the row is added unless the delivery id is already present.
ExecInsert(table, idSeq, params) ==
    IF Jsonb(params.Payload).err
    THEN [table |-> table, idSeq |-> idSeq, err |-> "invalid_text_representation"]
    ELSE IF UniqueViolation(table, params)
    THEN [table |-> table, idSeq |-> idSeq + 1, err |-> "unique_violation"]
    ELSE [table |-> table \cup {NewRow(idSeq + 1, params)},
          idSeq |-> idSeq + 1, err |-> "nil"]

\* WebhookHandler.storeWebhookEvent: the parameters it passes to
\* CreateWebhookEvent.
CreateWebhookEventParams(eventType, deliveryID, repoName, senderLogin, action, payload) ==
    [DeliveryID |-> deliveryID,
     EventType |-> eventType,
     RepositoryName |-> IF repoName # "unknown" /\ repoName # ""
                        THEN Text(repoName) ELSE NullText,
     SenderLogin |-> IF senderLogin # "unknown" /\ senderLogin # ""
                     THEN Text(senderLogin) ELSE NullText,
     Action |-> IF action # "" THEN Text(action) ELSE NullText,
     Payload |-> payload]

(***************************************************************************)
(* State.                                                                  *)
(***************************************************************************)
VARIABLES
    env,                \* the environment of the process: PORT,
                        \* GITHUB_WEBHOOK_SECRET, DATABASE_URL
    postgres,           \* whether the database answers: "up" or "down"
    main,               \* where the process is: "start", "constructed",
                        \* "listening" or "exited"
    ws,                 \* the WebhookServer: webhookSecret, port, dbConn
    startup,            \* the entries NewWebhookServer and Start have logged
    wh,                 \* the WebhookHandler: webhookSecret, dbConn
    webhook_events,     \* the rows of the table
    webhook_events_id_seq,  \* the last value of the table's id sequence
    reqs,               \* per worker: the request it serves and its locals
    accepted            \* requests accepted so far

\* The process and what surrounds it, apart from the handler and the table.
server == <<env, postgres, main, ws, startup>>

vars == <<server, wh, SupportedEventTypes, webhook_events, webhook_events_id_seq,
          reqs, accepted>>

\* One goroutine per request in flight.
Workers == {"w1", "w2"}

StatusOK == 200
StatusBadRequest == 400
StatusUnauthorized == 401
StatusMethodNotAllowed == 405

Terminal == {"Acknowledged", "Rejected", "Served"}

\* A worker that serves no request.  trace lists the steps of HandleWebhook
\* the request has gone through; sigValid is the boolean validateSignature
\* returned to it; storeErr is the error storeWebhookEvent returned; log
\* holds the entries the request wrote with log.Printf (format, arguments);
\* status and response are the status code and the text written to the
\* client (the message given to http.Error, or the encoded JSON object).
Idle ==
    [pc |-> "idle",
     Method |-> "", Body |-> "", XGitHubEvent |-> "", XGitHubDelivery |-> "",
     XHubSignature256 |-> <<>>, URLPath |-> "",
     trace |-> <<>>, sigValid |-> "unchecked",
     event |-> ZeroEvent, repoName |-> "", senderLogin |-> "",
     storeErr |-> "none",
     log |-> <<>>, status |-> 0, response |-> ""]

\* A request as it arrives: its method, its body and the three headers
\* (an absent header reads as the empty string).
Request(method, body, eventType, deliveryID, signature) ==
    [Idle EXCEPT !.pc = "Received", !.Method = method, !.Body = body,
                 !.XGitHubEvent = eventType, !.XGitHubDelivery = deliveryID,
                 !.XHubSignature256 = signature, !.URLPath = "/webhook"]

\* http.Error(w, msg, code) and the handler's return.
Reject(r, code, msg, logged) ==
    [r EXCEPT !.pc = "Rejected", !.status = code, !.response = msg,
              !.log = r.log \o logged]

(***************************************************************************)
(* WebhookHandler.HandleWebhook, step by step.  Each operator gives the    *)
(* request after the step.                                                 *)
(***************************************************************************)
Did(r, step) == [r EXCEPT !.trace = Append(r.trace, step)]

\* Faulty variant: the rejection is logged with the header that was refused.
CheckSignature_LogsSignature(h, r) ==
    LET ok == validateSignature(h, r.Body, r.XHubSignature256)
        r1 == [Did(r, "signature") EXCEPT !.sigValid = IF ok THEN "true" ELSE "false"]
    IN  IF ~ok
        THEN Reject(r1, StatusUnauthorized, "Invalid signature",
                    << <<"Invalid signature for delivery %s: %s",
                         r.XGitHubDelivery, r.XHubSignature256>> >>)
        ELSE [r1 EXCEPT !.pc = "Authenticated"]

\* Faulty variant: the 401 branch without its return.
CheckSignature_NoReturn(h, r) ==
    LET ok == validateSignature(h, r.Body, r.XHubSignature256)
        r1 == [Did(r, "signature") EXCEPT !.sigValid = IF ok THEN "true" ELSE "false"]
    IN  [r1 EXCEPT !.pc = "Authenticated",
                   !.log = IF ok THEN r.log
                           ELSE r.log \o << <<"Invalid signature for delivery %s",
                                              r.XGitHubDelivery>> >>]

\* The signature check and its 401.
CheckSignature(h, r) ==
    LET body == r.Body
        deliveryID == r.XGitHubDelivery
        signature == r.XHubSignature256
        ok == validateSignature(h, body, signature)
        r1 == [Did(r, "signature") EXCEPT !.sigValid = IF ok THEN "true" ELSE "false"]
    IN  IF ~ok
        THEN Reject(r1, StatusUnauthorized, "Invalid signature",
                    << <<"Invalid signature for delivery %s", deliveryID>> >>)
        ELSE [r1 EXCEPT !.pc = "Authenticated"]

\* Faulty variant: a request without its event type or its delivery id is
\* refused.
Receive_RequireHeaders(h, r, readErr) ==
    IF r.Method # "POST"
    THEN Reject(Did(r, "method"), StatusMethodNotAllowed,
                "Only POST method is allowed", <<>>)
    ELSE IF readErr
    THEN Reject(Did(Did(r, "method"), "read"), StatusBadRequest,
                "Error reading request body",
                << <<"Error reading request body: %v", "read error">> >>)
    ELSE IF r.XGitHubEvent = "" \/ r.XGitHubDelivery = ""
    THEN Reject(Did(Did(Did(r, "method"), "read"), "headers"), StatusBadRequest,
                "Missing headers", <<>>)
    ELSE CheckSignature(h, Did(Did(Did(r, "method"), "read"), "headers"))

\* Faulty variant: the handler without its method check.
Receive_AnyMethod(h, r, readErr) ==
    IF readErr
    THEN Reject(Did(Did(r, "method"), "read"), StatusBadRequest,
                "Error reading request body",
                << <<"Error reading request body: %v", "read error">> >>)
    ELSE CheckSignature(h, Did(Did(Did(r, "method"), "read"), "headers"))

\* Faulty variant: the body is parsed before the signature is checked.
Receive_ParseFirst(h, r, readErr) ==
    IF r.Method # "POST"
    THEN Reject(Did(r, "method"), StatusMethodNotAllowed,
                "Only POST method is allowed", <<>>)
    ELSE IF readErr
    THEN Reject(Did(Did(r, "method"), "read"), StatusBadRequest,
                "Error reading request body",
                << <<"Error reading request body: %v", "read error">> >>)
    ELSE IF Unmarshal(r.Body).err
    THEN Reject(Did(Did(Did(Did(r, "method"), "read"), "headers"), "parse"),
                StatusBadRequest, "Invalid JSON payload",
                << <<"Error parsing JSON payload: %v", "json error">> >>)
    ELSE CheckSignature(h, Did(Did(Did(r, "method"), "read"), "headers"))

\* The method check, the read of the body (readErr: io.ReadAll failed), the
\* three headers and the signature check.
Receive(h, r, readErr) ==
    IF r.Method # "POST"
    THEN Reject(Did(r, "method"), StatusMethodNotAllowed,
                "Only POST method is allowed", <<>>)
    ELSE IF readErr
    THEN Reject(Did(Did(r, "method"), "read"), StatusBadRequest,
                "Error reading request body",
                << <<"Error reading request body: %v", "read error">> >>)
    ELSE CheckSignature(h, Did(Did(Did(r, "method"), "read"), "headers"))

\* Faulty variant: a parse error is answered as a signature failure is.
ParseAndLog_Unauthorized(r) ==
    LET event == Unmarshal(r.Body)
        name == StringField(event.Repository, "full_name")
        login == StringField(event.Sender, "login")
        repoName == IF ~event.Repository.nil /\ name.ok THEN name.value ELSE "unknown"
        senderLogin == IF ~event.Sender.nil /\ login.ok THEN login.value ELSE "unknown"
        r1 == Did(r, "parse")
    IN  IF event.err
        THEN Reject(r1, StatusUnauthorized, "Invalid signature",
                    << <<"Invalid signature for delivery %s", r.XGitHubDelivery>> >>)
        ELSE [Did(r1, "summary") EXCEPT
                !.pc = "Parsed",
                !.event = event,
                !.repoName = repoName,
                !.senderLogin = senderLogin,
                !.log = r.log
                    \o << <<"Received %s event from %s (delivery: %s, sender: %s)",
                            r.XGitHubEvent, repoName, r.XGitHubDelivery, senderLogin>> >>
                    \o (IF event.Action # ""
                        THEN << <<"Event action: %s", event.Action>> >>
                        ELSE <<>>)]

\* Faulty variant: the action is logged also when the payload has none.
ParseAndLog_AlwaysAction(r) ==
    LET event == Unmarshal(r.Body)
        name == StringField(event.Repository, "full_name")
        login == StringField(event.Sender, "login")
        repoName == IF ~event.Repository.nil /\ name.ok THEN name.value ELSE "unknown"
        senderLogin == IF ~event.Sender.nil /\ login.ok THEN login.value ELSE "unknown"
        r1 == Did(r, "parse")
    IN  IF event.err
        THEN Reject(r1, StatusBadRequest, "Invalid JSON payload",
                    << <<"Error parsing JSON payload: %v", "json error">> >>)
        ELSE [Did(r1, "summary") EXCEPT
                !.pc = "Parsed",
                !.event = event,
                !.repoName = repoName,
                !.senderLogin = senderLogin,
                !.log = r.log
                    \o << <<"Received %s event from %s (delivery: %s, sender: %s)",
                            r.XGitHubEvent, repoName, r.XGitHubDelivery, senderLogin>> >>
                    \o << <<"Event action: %s", event.Action>> >>]

\* Faulty variant: the 400 branch of the parse without its return.
ParseAndLog_NoReturn(r) ==
    LET event == Unmarshal(r.Body)
        r1 == Did(r, "parse")
    IN  [Did(r1, "summary") EXCEPT
            !.pc = "Parsed",
            !.event = IF event.err THEN ZeroEvent ELSE event,
            !.repoName = "unknown",
            !.senderLogin = "unknown",
            !.log = r.log
                \o (IF event.err
                    THEN << <<"Error parsing JSON payload: %v", "json error">> >>
                    ELSE <<>>)
                \o << <<"Received %s event from %s (delivery: %s, sender: %s)",
                        r.XGitHubEvent, "unknown", r.XGitHubDelivery, "unknown">> >>]

\* json.Unmarshal, the extraction of the repository name and the sender
\* login, and the summary log.
ParseAndLog(r) ==
    LET body == r.Body
        eventType == r.XGitHubEvent
        deliveryID == r.XGitHubDelivery
        event == Unmarshal(body)
        name == StringField(event.Repository, "full_name")
        login == StringField(event.Sender, "login")
        repoName == IF ~event.Repository.nil /\ name.ok THEN name.value ELSE "unknown"
        senderLogin == IF ~event.Sender.nil /\ login.ok THEN login.value ELSE "unknown"
        r1 == Did(r, "parse")
    IN  IF event.err
        THEN Reject(r1, StatusBadRequest, "Invalid JSON payload",
                    << <<"Error parsing JSON payload: %v", "json error">> >>)
        ELSE [Did(r1, "summary") EXCEPT
                !.pc = "Parsed",
                !.event = event,
                !.repoName = repoName,
                !.senderLogin = senderLogin,
                !.log = r.log
                    \o << <<"Received %s event from %s (delivery: %s, sender: %s)",
                            eventType, repoName, deliveryID, senderLogin>> >>
                    \o (IF event.Action # ""
                        THEN << <<"Event action: %s", event.Action>> >>
                        ELSE <<>>)]

\* Faulty variant: the handler looks the delivery id up in the table and
\* stores the event only when it finds none.
StoresEvent_PreCheck(h, r) ==
    /\ h.dbConn # "nil"
    /\ IsSupportedEvent(r.XGitHubEvent)
    /\ \A row \in webhook_events : row.delivery_id # r.XGitHubDelivery

\* Faulty variant: the handler does not test the connection for nil.
StoresEvent_NoHandleCheck(h, r) == IsSupportedEvent(r.XGitHubEvent)

\* Faulty variant: the handler stores events of every type.
StoresEvent_AnyType(h, r) == h.dbConn # "nil"

\* Whether HandleWebhook calls storeWebhookEvent.
StoresEvent(h, r) == h.dbConn # "nil" /\ IsSupportedEvent(r.XGitHubEvent)

\* Faulty variant: a storage error fails the request.
AfterStore_FailRequest(r, err) ==
    IF err # "nil"
    THEN Reject([Did(r, "store") EXCEPT !.storeErr = err], 500,
                "Failed to store webhook event",
                << <<"Failed to store webhook event in database: %v", err>> >>)
    ELSE [Did(r, "store") EXCEPT
            !.pc = "PersistenceAttempted",
            !.storeErr = err,
            !.log = r.log \o
                << <<"Successfully stored %s event in database (delivery: %s)",
                     r.XGitHubEvent, r.XGitHubDelivery>> >>]

\* Faulty variant: after an error the store is attempted again.
AfterStore_Retry(r, err) ==
    IF err # "nil"
    THEN [Did(r, "store") EXCEPT
            !.storeErr = err,
            !.log = r.log \o
                << <<"Failed to store webhook event in database: %v", err>> >>]
    ELSE [Did(r, "store") EXCEPT
            !.pc = "PersistenceAttempted",
            !.storeErr = err,
            !.log = r.log \o
                << <<"Successfully stored %s event in database (delivery: %s)",
                     r.XGitHubEvent, r.XGitHubDelivery>> >>]

\* The request after storeWebhookEvent returned err.
AfterStore(r, err) ==
    [Did(r, "store") EXCEPT
        !.pc = "PersistenceAttempted",
        !.storeErr = err,
        !.log = r.log \o
            (IF err # "nil"
             THEN << <<"Failed to store webhook event in database: %v", err>> >>
             ELSE << <<"Successfully stored %s event in database (delivery: %s)",
                       r.XGitHubEvent, r.XGitHubDelivery>> >>)]

\* Faulty variant: an event type that is not stored is refused.
SkipStore_RejectUnsupported(r) ==
    IF ~IsSupportedEvent(r.XGitHubEvent)
    THEN Reject(Did(r, "skip"), StatusBadRequest, "Unsupported event type", <<>>)
    ELSE [Did(r, "skip") EXCEPT !.pc = "PersistenceSkipped"]

\* Faulty variant: "else if" written as "else": every request that is not
\* stored logs that its type is not stored.
SkipStore_AlwaysLogs(r) ==
    [Did(r, "skip") EXCEPT
        !.pc = "PersistenceSkipped",
        !.log = r.log \o
            << <<"Event type %s is not stored in database (only push, issue_comment, and pull_request events are stored)",
                 r.XGitHubEvent>> >>]

\* The request when nothing is stored.
SkipStore(r) ==
    [Did(r, "skip") EXCEPT
        !.pc = "PersistenceSkipped",
        !.log = r.log \o
            (IF ~IsSupportedEvent(r.XGitHubEvent)
             THEN << <<"Event type %s is not stored in database (only push, issue_comment, and pull_request events are stored)",
                       r.XGitHubEvent>> >>
             ELSE <<>>)]

\* The 200 response.
Respond(r) ==
    [Did(r, "respond") EXCEPT
        !.pc = "Acknowledged",
        !.status = StatusOK,
        !.response = "{\"message\":\"Webhook received and processed\",\"status\":\"success\"}"]

\* HandleWebhook from its first line to its return, for a handler h and a
\* request r: readErr says whether io.ReadAll fails, err is what
\* storeWebhookEvent returns if it is called.
HandleWebhook(h, r, readErr, err) ==
    LET a == Receive(h, r, readErr)
        p == IF a.pc = "Authenticated" THEN ParseAndLog(a) ELSE a
        s == IF p.pc # "Parsed" THEN p
             ELSE IF StoresEvent(h, p) THEN AfterStore(p, err)
             ELSE SkipStore(p)
    IN  IF s.pc \in Terminal THEN s ELSE Respond(s)

\* NewWebhookHandler.
NewWebhookHandler(secret, dbConn) == [webhookSecret |-> secret, dbConn |-> dbConn]

(***************************************************************************)
(* internal/handlers/root.go and the routes of WebhookServer.Start.        *)
(***************************************************************************)
StatusNotFound == 404

\* A request for a path, with no body and no webhook header.
PathRequest(method, path) ==
    [Idle EXCEPT !.pc = "Received", !.Method = method, !.URLPath = path]

\* The patterns registered on the ServeMux: "/webhook" and "/health" match
\* their own path only, "/" matches every path no other pattern matches.
Route(path) ==
    IF path = "/webhook" THEN "HandleWebhook"
    ELSE IF path = "/health" THEN "HandleHealth"
    ELSE "HandleRoot"

\* Faulty variant: every path under "/" gets the listing.
HandleRoot_AnyPath(r) ==
    [Did(r, "root") EXCEPT
        !.pc = "Served",
        !.status = StatusOK,
        !.response = "Choochoo GitHub Webhook Server\nEndpoints:\n- POST /webhook - GitHub webhook endpoint\n- GET /health - Health check\n"]

\* HandleRoot: http.NotFound for a path other than "/", the listing (with
\* the status 200 of a first write) for "/".
HandleRoot(r) ==
    IF r.URLPath # "/"
    THEN [Did(r, "root") EXCEPT
            !.pc = "Served",
            !.status = StatusNotFound,
            !.response = "404 page not found\n"]
    ELSE [Did(r, "root") EXCEPT
            !.pc = "Served",
            !.status = StatusOK,
            !.response = "Choochoo GitHub Webhook Server\nEndpoints:\n- POST /webhook - GitHub webhook endpoint\n- GET /health - Health check\n"]

(***************************************************************************)
(* internal/server and internal/database: the construction of the server.  *)
(* The environment is a function from the names of the variables that are  *)
(* set to their values; the secret is the sequence of its bytes.           *)
(***************************************************************************)
\* os.Getenv: a variable that is not set reads as the empty string.
Getenv(e, name) ==
    IF name \in DOMAIN e THEN e[name]
    ELSE IF name = "GITHUB_WEBHOOK_SECRET" THEN <<>> ELSE ""

\* database.NewConnection: pgx.Connect and Ping; a nil connection and an
\* error when the database does not answer.
NewConnection(e, pg) ==
    IF pg = "up"
    THEN [conn |-> "conn", err |-> "nil"]
    ELSE [conn |-> "nil", err |-> "failed to connect to database"]

\* var ws *WebhookServer before NewWebhookServer has returned.
NilServer == [nil |-> TRUE, webhookSecret |-> <<>>, port |-> "", dbConn |-> "nil"]

\* Faulty variant: the default port is used whatever PORT holds.
NewWebhookServer_FixedPort(e, pg) ==
    [nil |-> FALSE,
     webhookSecret |-> Getenv(e, "GITHUB_WEBHOOK_SECRET"),
     port |-> "8080",
     dbConn |-> IF Getenv(e, "DATABASE_URL") # ""
                THEN NewConnection(e, pg).conn ELSE "nil"]

\* NewWebhookServer: the server made from the environment e while the
\* database is in state pg.
NewWebhookServer(e, pg) ==
    LET port == IF Getenv(e, "PORT") = "" THEN "8080" ELSE Getenv(e, "PORT")
        webhookSecret == Getenv(e, "GITHUB_WEBHOOK_SECRET")
        dbConn == IF Getenv(e, "DATABASE_URL") # ""
                  THEN NewConnection(e, pg).conn
                  ELSE "nil"
    IN  [nil |-> FALSE, webhookSecret |-> webhookSecret, port |-> port,
         dbConn |-> dbConn]

\* What NewWebhookServer logs.
StartupLog(e, pg) ==
    (IF Getenv(e, "GITHUB_WEBHOOK_SECRET") = <<>>
     THEN << <<"Warning: GITHUB_WEBHOOK_SECRET not set. Webhook signature validation will be skipped.">> >>
     ELSE <<>>)
    \o (IF Getenv(e, "DATABASE_URL") = ""
        THEN << <<"Warning: DATABASE_URL not set. Webhooks will be logged but not stored in database.">> >>
        ELSE IF NewConnection(e, pg).err # "nil"
        THEN << <<"Warning: Failed to connect to database: %v. Webhooks will be logged but not stored.",
                  NewConnection(e, pg).err>> >>
        ELSE << <<"Successfully connected to database">> >>)

\* What Start logs before it listens on ":" followed by the port.
StartLog(s) ==
    << <<"Starting choochoo webhook server on port %s", s.port>>,
       <<"Webhook endpoint: http://localhost:%s/webhook", s.port>>,
       <<"Health check: http://localhost:%s/health", s.port>> >>

\* The process that serves with the handler h: it was started with the
\* environment that gives h, the database answered, and Start is in
\* http.ListenAndServe.
Serving(h) ==
    /\ env = [PORT |-> "8080", GITHUB_WEBHOOK_SECRET |-> h.webhookSecret,
              DATABASE_URL |-> IF h.dbConn = "nil" THEN "" ELSE "postgres://db"]
    /\ postgres = "up"
    /\ main = "listening"
    /\ ws = NewWebhookServer(env, postgres)
    /\ startup = StartupLog(env, postgres) \o StartLog(ws)

(***************************************************************************)
(* Actions.                                                                *)
(***************************************************************************)
\* The server accepts a request and hands it to a worker that serves none.
Arrive(w, requests) ==
    /\ main = "listening"
    /\ accepted < MaxRequests
    /\ reqs[w].pc \in Terminal \cup {"idle"}
    /\ \E r \in requests : reqs' = [reqs EXCEPT ![w] = r]
    /\ accepted' = accepted + 1
    /\ UNCHANGED <<server, wh, SupportedEventTypes, webhook_events, webhook_events_id_seq>>

Authenticate(w) ==
    /\ reqs[w].pc = "Received"
    /\ Route(reqs[w].URLPath) = "HandleWebhook"
    /\ \E readErr \in BOOLEAN :
          reqs' = [reqs EXCEPT ![w] = Receive(wh, reqs[w], readErr)]
    /\ UNCHANGED <<server, wh, SupportedEventTypes, webhook_events, webhook_events_id_seq, accepted>>

\* Faulty variant: the event is written to the table before its payload is
\* parsed.
Parse_StoreFirst(w) ==
    /\ reqs[w].pc = "Authenticated"
    /\ LET r == reqs[w]
           params == CreateWebhookEventParams(r.XGitHubEvent, r.XGitHubDelivery,
                        "unknown", "unknown", "", r.Body)
           res == IF StoresEvent(wh, r)
                  THEN ExecInsert(webhook_events, webhook_events_id_seq, params)
                  ELSE [table |-> webhook_events, idSeq |-> webhook_events_id_seq]
       IN  /\ webhook_events' = res.table
           /\ webhook_events_id_seq' = res.idSeq
           /\ reqs' = [reqs EXCEPT ![w] = ParseAndLog(r)]
    /\ UNCHANGED <<server, wh, SupportedEventTypes, accepted>>

Parse(w) ==
    /\ reqs[w].pc = "Authenticated"
    /\ reqs' = [reqs EXCEPT ![w] = ParseAndLog(reqs[w])]
    /\ UNCHANGED <<server, wh, SupportedEventTypes, webhook_events, webhook_events_id_seq, accepted>>

\* storeWebhookEvent, the INSERT reaching the database.
StoreInsert(w) ==
    /\ reqs[w].pc = "Parsed"
    /\ StoresEvent(wh, reqs[w])
    /\ LET r == reqs[w]
           params == CreateWebhookEventParams(r.XGitHubEvent, r.XGitHubDelivery,
                        r.repoName, r.senderLogin, r.event.Action, r.Body)
           res == ExecInsert(webhook_events, webhook_events_id_seq, params)
       IN  /\ webhook_events' = res.table
           /\ webhook_events_id_seq' = res.idSeq
           /\ reqs' = [reqs EXCEPT ![w] = AfterStore(r, res.err)]
    /\ UNCHANGED <<server, wh, SupportedEventTypes, accepted>>

\* storeWebhookEvent, the INSERT executed by the database but its reply not
\* received within the five seconds of the context.
StoreLateReply(w) ==
    /\ reqs[w].pc = "Parsed"
    /\ StoresEvent(wh, reqs[w])
    /\ LET r == reqs[w]
           params == CreateWebhookEventParams(r.XGitHubEvent, r.XGitHubDelivery,
                        r.repoName, r.senderLogin, r.event.Action, r.Body)
           res == ExecInsert(webhook_events, webhook_events_id_seq, params)
       IN  /\ webhook_events' = res.table
           /\ webhook_events_id_seq' = res.idSeq
           /\ reqs' = [reqs EXCEPT ![w] = AfterStore(r, "context deadline exceeded")]
    /\ UNCHANGED <<server, wh, SupportedEventTypes, accepted>>

\* Faulty variant: the store call is made with a context that has no
\* deadline, so a call the database does not answer never returns.
StoreFail_NoDeadline(w) ==
    /\ reqs[w].pc = "Parsed"
    /\ StoresEvent(wh, reqs[w])
    /\ FALSE
    /\ UNCHANGED vars

\* storeWebhookEvent, the INSERT not reaching the database: the connection
\* is down or busy, or the five seconds of the context pass first.
StoreFail(w) ==
    /\ reqs[w].pc = "Parsed"
    /\ StoresEvent(wh, reqs[w])
    /\ \E err \in {"connection error", "context deadline exceeded"} :
          reqs' = [reqs EXCEPT ![w] = AfterStore(reqs[w], err)]
    /\ UNCHANGED <<server, wh, SupportedEventTypes, webhook_events, webhook_events_id_seq, accepted>>

\* Faulty variant: a request on a handler without a connection makes
\* the process connect to the database.
Skip_Reconnects(w) ==
    /\ reqs[w].pc = "Parsed"
    /\ ~StoresEvent(wh, reqs[w])
    /\ reqs' = [reqs EXCEPT ![w] = SkipStore(reqs[w])]
    /\ wh' = IF Getenv(env, "DATABASE_URL") # ""
             THEN [wh EXCEPT !.dbConn = NewConnection(env, postgres).conn]
             ELSE wh
    /\ UNCHANGED <<server, SupportedEventTypes, webhook_events, webhook_events_id_seq, accepted>>

\* Faulty variant: the lookup of a type that is not in the map adds the
\* type to it, with the value false.
Skip_InsertsKey(w) ==
    /\ reqs[w].pc = "Parsed"
    /\ ~StoresEvent(wh, reqs[w])
    /\ reqs' = [reqs EXCEPT ![w] = SkipStore(reqs[w])]
    /\ SupportedEventTypes' =
          [e \in DOMAIN SupportedEventTypes \cup {reqs[w].XGitHubEvent} |->
              e \in DOMAIN SupportedEventTypes /\ SupportedEventTypes[e]]
    /\ UNCHANGED <<server, wh, webhook_events, webhook_events_id_seq, accepted>>

Skip(w) ==
    /\ reqs[w].pc = "Parsed"
    /\ ~StoresEvent(wh, reqs[w])
    /\ reqs' = [reqs EXCEPT ![w] = SkipStore(reqs[w])]
    /\ UNCHANGED <<server, wh, SupportedEventTypes, webhook_events, webhook_events_id_seq, accepted>>

\* pgx.Conn serves one statement at a time: a statement is in progress on
\* the connection for another request.  The handler has one connection
\* and calls it from every goroutine.
Busy(w) == \E v \in Workers \ {w} : reqs[v].storeErr = "pending"

\* storeWebhookEvent, the statement sent on the connection.  The test of
\* the connection's status is not synchronised, so a statement can also be
\* sent while another is in progress.
StoreBegin(w) ==
    /\ reqs[w].pc = "Parsed"
    /\ StoresEvent(wh, reqs[w])
    /\ reqs' = [reqs EXCEPT ![w] = [reqs[w] EXCEPT !.pc = "PersistenceAttempted",
                                                   !.storeErr = "pending"]]
    /\ UNCHANGED <<server, wh, SupportedEventTypes, webhook_events, webhook_events_id_seq, accepted>>

\* storeWebhookEvent, the statement refused by the connection because
\* another is in progress on it.
StoreBusy(w) ==
    /\ reqs[w].pc = "Parsed"
    /\ StoresEvent(wh, reqs[w])
    /\ Busy(w)
    /\ reqs' = [reqs EXCEPT ![w] = AfterStore(reqs[w], "conn busy")]
    /\ UNCHANGED <<server, wh, SupportedEventTypes, webhook_events, webhook_events_id_seq, accepted>>

\* storeWebhookEvent, the INSERT executed and its reply received.
StoreEnd(w) ==
    /\ reqs[w].pc = "PersistenceAttempted"
    /\ reqs[w].storeErr = "pending"
    /\ LET r == reqs[w]
           params == CreateWebhookEventParams(r.XGitHubEvent, r.XGitHubDelivery,
                        r.repoName, r.senderLogin, r.event.Action, r.Body)
           res == ExecInsert(webhook_events, webhook_events_id_seq, params)
       IN  /\ webhook_events' = res.table
           /\ webhook_events_id_seq' = res.idSeq
           /\ reqs' = [reqs EXCEPT ![w] = AfterStore(r, res.err)]
    /\ UNCHANGED <<server, wh, SupportedEventTypes, accepted>>

\* A request that the ServeMux hands to HandleRoot.
Root(w) ==
    /\ reqs[w].pc = "Received"
    /\ Route(reqs[w].URLPath) = "HandleRoot"
    /\ reqs' = [reqs EXCEPT ![w] = HandleRoot(reqs[w])]
    /\ UNCHANGED <<server, wh, SupportedEventTypes, webhook_events, webhook_events_id_seq, accepted>>

\* main: server := NewWebhookServer().
NewServer ==
    /\ main = "start"
    /\ ws' = NewWebhookServer(env, postgres)
    /\ startup' = startup \o StartupLog(env, postgres)
    /\ main' = "constructed"
    /\ UNCHANGED <<env, postgres, wh, SupportedEventTypes, webhook_events,
                   webhook_events_id_seq, reqs, accepted>>

\* WebhookServer.Start: the handler is made from the server's fields and
\* the routes are registered; http.ListenAndServe then serves, or returns
\* an error (the port is taken) and log.Fatalf ends the process.
Start ==
    /\ main = "constructed"
    /\ wh' = NewWebhookHandler(ws.webhookSecret, ws.dbConn)
    /\ \E listenErr \in BOOLEAN :
          /\ main' = IF listenErr THEN "exited" ELSE "listening"
          /\ startup' = startup \o StartLog(ws)
                \o (IF listenErr
                    THEN << <<"Server failed to start: %v", "listen error">> >>
                    ELSE <<>>)
    /\ UNCHANGED <<env, postgres, ws, SupportedEventTypes, webhook_events,
                   webhook_events_id_seq, reqs, accepted>>

\* The environment changes after the server was constructed (the tests set
\* and restore variables around NewWebhookServer).
Setenv(envs) ==
    /\ main # "start"
    /\ env' \in envs \ {env}
    /\ UNCHANGED <<postgres, main, ws, startup, wh, SupportedEventTypes, webhook_events,
                   webhook_events_id_seq, reqs, accepted>>

\* The database that did not answer when the process started comes up.
DatabaseUp ==
    /\ main # "start"
    /\ postgres = "down"
    /\ postgres' = "up"
    /\ UNCHANGED <<env, main, ws, startup, wh, SupportedEventTypes, webhook_events,
                   webhook_events_id_seq, reqs, accepted>>

Acknowledge(w) ==
    /\ reqs[w].pc \in {"PersistenceAttempted", "PersistenceSkipped"}
    /\ reqs[w].storeErr # "pending"
    /\ reqs' = [reqs EXCEPT ![w] = Respond(reqs[w])]
    /\ UNCHANGED <<server, wh, SupportedEventTypes, webhook_events, webhook_events_id_seq, accepted>>

(***************************************************************************)
(* Inputs.                                                                 *)
(***************************************************************************)
Secret1 == <<1>>
Secret2 == <<2>>
\* Secret1 followed by a zero byte.
Secret1Zero == <<1, 0>>
\* A secret longer than the block, and its hash.
LongSecret == [i \in 1..(BlockSize + 1) |-> 1]
LongSecretSum == Sum256(LongSecret)

\* The secrets of the model: none, two short ones, a short one followed by
\* a zero byte, one longer than the block, and the hash of that one.
Secrets == {<<>>, Secret1, Secret2, Secret1Zero, LongSecret, LongSecretSum}

\* Within the model no two different (block key, message) pairs have the
\* same digest.
HashInjective ==
    \A k1 \in Secrets, k2 \in Secrets :
        \A i1 \in DOMAIN BodyTexts, i2 \in DOMAIN BodyTexts :
            HMACSum(k1, BodyTexts[i1]) = HMACSum(k2, BodyTexts[i2])
                => BlockKey(k1) = BlockKey(k2) /\ i1 = i2

\* The hex digits of a header in upper case.
ToUpper(s) ==
    [i \in DOMAIN s |->
        IF s[i] \in Range(hextable)
        THEN UpperHex[CHOOSE j \in DOMAIN hextable : hextable[j] = s[i]]
        ELSE s[i]]

\* The digest text of a header that has the prefix.
Digits(signature) == SubSeq(signature, Len(Sha256Prefix) + 1, Len(signature))

\* A header that has the prefix and no hex digits after it.
NotHex == Sha256Prefix \o <<"z", "z">>

\* The shapes of signature header a client can send for `body`, given the
\* header `good` that a sender holding some secret computes for it.
Malformed(good) ==
    {<<>>,                                          \* no header
     Digits(good),                                  \* no prefix
     ToUpper(Sha256Prefix) \o Digits(good),         \* prefix in upper case
     Sha256Prefix,                                  \* no digest
     NotHex,                                        \* not hex
     Sha256Prefix \o <<"-">> \o Digits(good),       \* not hex, odd length
     SubSeq(good, 1, Len(good) - 1),                \* a digit short
     SubSeq(good, 1, Len(good) - 2),                \* a byte short
     good \o <<"0", "0">>}                          \* a byte long

SignatureShapes(body) ==
    UNION {{generateSignature(body, s),
            Sha256Prefix \o ToUpper(Digits(generateSignature(body, s)))} \cup
           Malformed(generateSignature(body, s)) : s \in Secrets}
    \cup {generateSignature(b, s) : b \in {FullEvent, EmptyObject}, s \in {Secret1}}

\* The requests of the signature specification: every shape of header, on
\* two bodies and with two delivery ids.
SigRequests ==
    UNION {{Request("POST", b, "push", d, s) :
                d \in {"d1", "d2"}, s \in SignatureShapes(b)} :
            b \in {FullEvent, EmptyObject}}

\* The requests of the pipeline specification.
Signatures(body) ==
    {<<>>, generateSignature(body, Secret1), generateSignature(body, Secret2),
     generateSignature(EmptyObject, Secret1)}

Requests ==
    UNION {{Request(m, b, e, d, s) :
                m \in {"POST", "GET"},
                e \in {"pull_request", "ping", ""},
                d \in {"d1", ""},
                s \in Signatures(b)} :
            b \in {FullEvent, EmptyObject, NonStringFields, NotJSON}}

(***************************************************************************)
(* The pipeline: a handler constructed once, then requests served one      *)
(* after another.                                                          *)
(***************************************************************************)
Init ==
    /\ wh \in {NewWebhookHandler(s, c) : s \in {<<>>, Secret1}, c \in {"nil", "conn"}}
    /\ Serving(wh)
    /\ SupportedEventTypes = SupportedEventTypesLiteral
    /\ webhook_events = {}
    /\ webhook_events_id_seq = 0
    /\ reqs = [w \in Workers |-> Idle]
    /\ accepted = 0

Next ==
    \/ Arrive("w1", Requests)
    \/ Authenticate("w1")
    \/ Parse("w1")
    \/ StoreInsert("w1")
    \/ StoreLateReply("w1")
    \/ StoreFail("w1")
    \/ Skip("w1")
    \/ Acknowledge("w1")

Spec == Init /\ [][Next]_vars

(***************************************************************************)
(* The signature check alone: a handler with any of the secrets, and       *)
(* requests with every shape of signature header, up to the check.         *)
(***************************************************************************)
SigInit ==
    /\ wh \in {NewWebhookHandler(s, "nil") : s \in Secrets}
    /\ Serving(wh)
    /\ SupportedEventTypes = SupportedEventTypesLiteral
    /\ webhook_events = {}
    /\ webhook_events_id_seq = 0
    /\ reqs = [w \in Workers |-> Idle]
    /\ accepted = 0

SigNext ==
    \/ Arrive("w1", SigRequests)
    \/ Authenticate("w1")

SigSpec == SigInit /\ [][SigNext]_vars

(***************************************************************************)
(* The pipeline with two requests in flight at a time: net/http serves     *)
(* each connection on its own goroutine.                                   *)
(***************************************************************************)
ConcRequests ==
    UNION {{Request("POST", b, e, d, s) :
                e \in {"pull_request", "ping"},
                d \in {"d1", "d2"},
                s \in {<<>>, generateSignature(b, Secret1)}} :
            b \in {FullEvent, OtherEvent}}

ConcNext ==
    \E w \in Workers :
        \/ Arrive(w, ConcRequests)
        \/ Authenticate(w)
        \/ Parse(w)
        \/ StoreInsert(w)
        \/ StoreLateReply(w)
        \/ StoreFail(w)
        \/ Skip(w)
        \/ Acknowledge(w)

ConcSpec == Init /\ [][ConcNext]_vars

(***************************************************************************)
(* The parse and the store decision: a handler with a secret, and requests *)
(* signed with it, with every body and every event type of the model.      *)
(***************************************************************************)
\* The event types of TestIsSupportedEvent, a type that differs from a
\* stored one in the case of a letter and one that a stored one begins.
EventTypes ==
    {"push", "issue_comment", "pull_request",
     "ping", "release", "issues", "fork", "",
     "Push", "pull_request_review"}

PayloadRequests ==
    {Request("POST", BodyTexts[i], e, "d1", generateSignature(BodyTexts[i], Secret1)) :
        i \in DOMAIN BodyTexts, e \in EventTypes}

PayloadInit ==
    /\ wh \in {NewWebhookHandler(Secret1, c) : c \in {"nil", "conn"}}
    /\ Serving(wh)
    /\ SupportedEventTypes = SupportedEventTypesLiteral
    /\ webhook_events = {}
    /\ webhook_events_id_seq = 0
    /\ reqs = [w \in Workers |-> Idle]
    /\ accepted = 0

PayloadNext ==
    \/ Arrive("w1", PayloadRequests)
    \/ Authenticate("w1")
    \/ Parse("w1")
    \/ StoreInsert("w1")
    \/ StoreLateReply("w1")
    \/ StoreFail("w1")
    \/ Skip("w1")
    \/ Acknowledge("w1")

PayloadSpec == PayloadInit /\ [][PayloadNext]_vars

(***************************************************************************)
(* The pipeline with two requests in flight at a time and the progress the *)
(* program makes by itself: a goroutine that can take its next step takes  *)
(* it, and a store call that no reply ends is ended by its context, whose  *)
(* deadline is five seconds.  Nothing is assumed of the database: it may   *)
(* never execute an INSERT and never reply.  The handler has no secret.    *)
(***************************************************************************)
LiveRequests ==
    {Request(m, b, e, d, <<>>) :
        m \in {"POST", "GET"},
        b \in {FullEvent, NotJSON},
        e \in {"pull_request", "ping"},
        d \in {"d1", "d2"}}

LiveInit ==
    /\ wh \in {NewWebhookHandler(<<>>, c) : c \in {"nil", "conn"}}
    /\ Serving(wh)
    /\ SupportedEventTypes = SupportedEventTypesLiteral
    /\ webhook_events = {}
    /\ webhook_events_id_seq = 0
    /\ reqs = [w \in Workers |-> Idle]
    /\ accepted = 0

LiveNext ==
    \E w \in Workers :
        \/ Arrive(w, LiveRequests)
        \/ Authenticate(w)
        \/ Parse(w)
        \/ StoreInsert(w)
        \/ StoreLateReply(w)
        \/ StoreFail(w)
        \/ Skip(w)
        \/ Acknowledge(w)

\* The steps of a request that need no reply of the database; at most one
\* of them is enabled at a time.
Serve(w) ==
    \/ Authenticate(w)
    \/ Parse(w)
    \/ StoreFail(w)
    \/ Skip(w)
    \/ Acknowledge(w)

Fairness == \A w \in Workers : WF_vars(Serve(w))

LiveSpec == LiveInit /\ [][LiveNext]_vars /\ Fairness

(***************************************************************************)
(* The pipeline with two requests in flight, every request with a delivery *)
(* id of its own, and a database that executes every INSERT it receives    *)
(* and replies in time: what differs from one run to another is only the   *)
(* interleaving of the requests on the handler's one connection.           *)
(***************************************************************************)
\* The delivery id of the n-th request.
NewDeliveryID(n) == <<"d1", "d2", "d3", "d4", "d5">>[n]

ConnRequests ==
    {Request("POST", b, e, NewDeliveryID(accepted + 1), <<>>) :
        b \in {FullEvent, OtherEvent}, e \in {"push", "ping"}}

ConnInit ==
    /\ wh = NewWebhookHandler(<<>>, "conn")
    /\ Serving(wh)
    /\ SupportedEventTypes = SupportedEventTypesLiteral
    /\ webhook_events = {}
    /\ webhook_events_id_seq = 0
    /\ reqs = [w \in Workers |-> Idle]
    /\ accepted = 0

ConnNext ==
    \E w \in Workers :
        \/ Arrive(w, ConnRequests)
        \/ Authenticate(w)
        \/ Parse(w)
        \/ StoreBegin(w)
        \/ StoreBusy(w)
        \/ StoreEnd(w)
        \/ Skip(w)
        \/ Acknowledge(w)

ConnSpec == ConnInit /\ [][ConnNext]_vars

(***************************************************************************)
(* The process from its start: the environment it finds, the server made   *)
(* from it, Start, and then requests for the webhook and for other paths,  *)
(* while the environment changes and the database comes up.                *)
(***************************************************************************)
EnvNames == {"PORT", "GITHUB_WEBHOOK_SECRET", "DATABASE_URL"}

\* Each variable unset or set; PORT also set to the empty string.
Envs ==
    {[n \in D |-> full[n]] :
        D \in SUBSET EnvNames,
        full \in [PORT : {"", "3000"},
                  GITHUB_WEBHOOK_SECRET : {Secret1},
                  DATABASE_URL : {"postgres://db"}]}

\* Paths the ServeMux hands to HandleRoot.
RootPaths == {"/", "/invalid", "/webhook/"}

ServerRequests ==
    {Request("POST", FullEvent, e, "d1", s) :
        e \in {"push", "ping"},
        s \in {<<>>, generateSignature(FullEvent, Secret1)}}
    \cup {PathRequest(m, p) : m \in {"GET", "POST"}, p \in RootPaths}

\* Before Start there is no handler: wh holds the zero value of the struct
\* and nothing reads it.
ServerInit ==
    /\ env \in Envs
    /\ postgres \in {"up", "down"}
    /\ main = "start"
    /\ ws = NilServer
    /\ startup = <<>>
    /\ wh = NewWebhookHandler(<<>>, "nil")
    /\ SupportedEventTypes = SupportedEventTypesLiteral
    /\ webhook_events = {}
    /\ webhook_events_id_seq = 0
    /\ reqs = [w \in Workers |-> Idle]
    /\ accepted = 0

ServerNext ==
    \/ NewServer
    \/ Start
    \/ Setenv(Envs)
    \/ DatabaseUp
    \/ Arrive("w1", ServerRequests)
    \/ Authenticate("w1")
    \/ Root("w1")
    \/ Parse("w1")
    \/ StoreInsert("w1")
    \/ StoreLateReply("w1")
    \/ StoreFail("w1")
    \/ Skip("w1")
    \/ Acknowledge("w1")

ServerSpec == ServerInit /\ [][ServerNext]_vars

(***************************************************************************)
(* Properties.                                                             *)
(***************************************************************************)
\* The hex digits of a text in lower case.
ToLower(s) ==
    [i \in DOMAIN s |->
        IF s[i] \in Range(UpperHex)
        THEN hextable[CHOOSE j \in DOMAIN UpperHex : UpperHex[j] = s[i]]
        ELSE s[i]]

\* The header is the prefix followed by the digest of `body` under `secret`
\* in hex, in either case of the letters.
Authentic(secret, body, signature) ==
    /\ Len(signature) = Len(Sha256Prefix) + 2 * Size
    /\ \A i \in DOMAIN Sha256Prefix : signature[i] = Sha256Prefix[i]
    /\ ToLower(Digits(signature)) = EncodeToString(HMACSum(secret, body))

\* The header does not begin with "sha256=".
LacksPrefix(signature) ==
    \/ Len(signature) < Len(Sha256Prefix)
    \/ \E i \in DOMAIN Sha256Prefix : signature[i] # Sha256Prefix[i]

\* The request has been through the signature check.
Checked(r) == r.sigValid # "unchecked"

InvalidSignatureLog(r) ==
    << <<"Invalid signature for delivery %s", r.XGitHubDelivery>> >>

\* C1: with a secret configured, a request whose signature check fails (its
\* header is not the digest of its body under the secret, or is absent) is
\* answered 401 and makes no store attempt, and every row added to the
\* table is the row of a request in flight whose header is the digest of
\* its raw body under the secret.
C1_Rejected ==
    \A w \in Workers :
        LET r == reqs[w]
        IN  /\ wh.webhookSecret # <<>>
            /\ Checked(r)
            /\ ~Authentic(wh.webhookSecret, r.Body, r.XHubSignature256)
            => /\ r.pc = "Rejected"
               /\ r.status = StatusUnauthorized
               /\ r.storeErr = "none"
               /\ "store" \notin Range(r.trace)

C1_Written ==
    /\ wh.webhookSecret # <<>>
    /\ webhook_events' # webhook_events
    => \E w \in Workers :
          /\ Authentic(wh.webhookSecret, reqs[w].Body, reqs[w].XHubSignature256)
          /\ reqs[w].sigValid = "true"
          /\ \E row \in webhook_events' :
                /\ webhook_events' = webhook_events \cup {row}
                /\ row.payload = Jsonb(reqs[w].Body).text
                /\ row.delivery_id = reqs[w].XGitHubDelivery

C1_OnlyVerifiedStored == [](C1_Rejected) /\ [][C1_Written]_vars

C1_Witness ==
    /\ wh.webhookSecret # <<>>
    /\ webhook_events # {}
    /\ reqs["w1"].XHubSignature256 = <<>>
    /\ reqs["w1"].Method = "POST"
    /\ reqs["w1"].status = StatusUnauthorized

\* C2: a POST request whose body was read and whose signature fails ends at
\* the signature step: it is rejected with 401, whether or not its body is
\* JSON, its body is never parsed, and its only log entry is the rejection
\* with the delivery id.
C2_SignatureBeforeParse ==
    \A w \in Workers :
        LET r == reqs[w]
        IN  /\ r.Method = "POST"
            /\ "headers" \in Range(r.trace)
            /\ wh.webhookSecret # <<>>
            /\ ~Authentic(wh.webhookSecret, r.Body, r.XHubSignature256)
            => /\ r.pc = "Rejected"
               /\ r.status = StatusUnauthorized
               /\ r.trace = <<"method", "read", "headers", "signature">>
               /\ r.log = InvalidSignatureLog(r)
               /\ "parse" \notin Range(r.trace)
               /\ r.event = ZeroEvent
               /\ r.repoName = "" /\ r.senderLogin = ""

C2_Witness ==
    /\ reqs["w1"].Body = NotJSON
    /\ reqs["w1"].XHubSignature256 = generateSignature(NotJSON, Secret2)
    /\ reqs["w1"].status = StatusUnauthorized

\* C3: a request whose header is the one generateSignature computes for its
\* body under the handler's secret passes validateSignature.
C3_RoundTrip ==
    \A w \in Workers :
        LET r == reqs[w]
        IN  /\ Checked(r)
            /\ r.XHubSignature256 = generateSignature(r.Body, wh.webhookSecret)
            => r.sigValid = "true"

C3_Witness ==
    /\ wh.webhookSecret = LongSecret
    /\ reqs["w1"].XHubSignature256 = generateSignature(EmptyObject, LongSecret)
    /\ reqs["w1"].Body = EmptyObject
    /\ reqs["w1"].sigValid = "true"

\* C4 as stated: whatever the handler's secret S, a header computed under any
\* other secret is refused.
C4_AnyOtherSecret ==
    \A w \in Workers : \A other \in Secrets :
        LET r == reqs[w]
        IN  /\ Checked(r)
            /\ other # wh.webhookSecret
            /\ r.XHubSignature256 = generateSignature(r.Body, other)
            => r.sigValid = "false"

\* C4: with a non-empty secret S, a header computed under a secret whose
\* HMAC key (the secret padded with zero bytes to the block, a secret longer
\* than the block being hashed first) differs from that of S is refused.
C4_Discrimination ==
    \A w \in Workers : \A other \in Secrets :
        LET r == reqs[w]
        IN  /\ Checked(r)
            /\ wh.webhookSecret # <<>>
            /\ BlockKey(other) # BlockKey(wh.webhookSecret)
            /\ r.XHubSignature256 = generateSignature(r.Body, other)
            => r.sigValid = "false"

C4_Witness ==
    /\ wh.webhookSecret = Secret1
    /\ reqs["w1"].XHubSignature256 = generateSignature(FullEvent, Secret2)
    /\ reqs["w1"].Body = FullEvent
    /\ reqs["w1"].sigValid = "false"

\* C5: with the empty secret every request that reaches the signature check
\* passes it, whatever its header, and no request is answered 401.
C5_DisabledValidation ==
    wh.webhookSecret = <<>> =>
        \A w \in Workers :
            LET r == reqs[w]
            IN  /\ "headers" \in Range(r.trace)
                    => r.sigValid = "true" /\ r.pc = "Authenticated"
                /\ r.status # StatusUnauthorized

C5_Witness ==
    /\ wh.webhookSecret = <<>>
    /\ reqs["w1"].XHubSignature256 = NotHex
    /\ reqs["w1"].pc = "Authenticated"

\* C6: with a non-empty secret, a header that does not begin with "sha256="
\* is refused; the absent header is one.
C6_PrefixRequired ==
    \A w \in Workers :
        LET r == reqs[w]
        IN  /\ Checked(r)
            /\ wh.webhookSecret # <<>>
            /\ LacksPrefix(r.XHubSignature256)
            => r.sigValid = "false"

C6_Witness ==
    /\ wh.webhookSecret = Secret1
    /\ reqs["w1"].Body = FullEvent
    /\ reqs["w1"].XHubSignature256 = Digits(generateSignature(FullEvent, Secret1))
    /\ reqs["w1"].sigValid = "false"

\* C7: with a non-empty secret, a header "sha256=" followed by text that is
\* not hexadecimal (a character that is no hex digit, or an odd number of
\* digits) is refused, and the request ends as every refused request does:
\* 401, "Invalid signature", the rejection logged with the delivery id.
C7_DecodeErrorIsFailure ==
    \A w \in Workers :
        LET r == reqs[w]
            text == Digits(r.XHubSignature256)
        IN  /\ Checked(r)
            /\ wh.webhookSecret # <<>>
            /\ ~LacksPrefix(r.XHubSignature256)
            /\ \/ \E i \in DOMAIN text :
                        text[i] \notin Range(hextable) \cup Range(UpperHex)
               \/ Len(text) % 2 = 1
            => /\ r.sigValid = "false"
               /\ r.pc = "Rejected"
               /\ r.status = StatusUnauthorized
               /\ r.response = "Invalid signature"
               /\ r.log = InvalidSignatureLog(r)

C7_Witness ==
    /\ wh.webhookSecret = Secret1
    /\ reqs["w1"].Body = FullEvent
    /\ reqs["w1"].XHubSignature256 =
            Sha256Prefix \o <<"-">> \o Digits(generateSignature(FullEvent, Secret1))
    /\ reqs["w1"].status = StatusUnauthorized

\* The header is "sha256=" followed by lower-case hex digits only.
LowerCaseShape(signature) ==
    /\ ~LacksPrefix(signature)
    /\ \A i \in DOMAIN Digits(signature) : Digits(signature)[i] \in Range(hextable)

\* The header is "sha256=" followed by hex digits of either case.
HexShape(signature) ==
    /\ ~LacksPrefix(signature)
    /\ \A i \in DOMAIN Digits(signature) :
            Digits(signature)[i] \in Range(hextable) \cup Range(UpperHex)

\* C8 as stated: with a secret set, every header that is not "sha256="
\* followed by lower-case hex digits is refused.
C8_LowerCaseOnly ==
    \A w \in Workers :
        LET r == reqs[w]
        IN  /\ Checked(r)
            /\ wh.webhookSecret # <<>>
            /\ ~LowerCaseShape(r.XHubSignature256)
            => r.sigValid = "false"

\* C8: with a secret set, every header that is not "sha256=" followed by hex
\* digits of either case is refused, and the header that carries the right
\* digest in upper-case hex digits is accepted.
C8_HexOfEitherCase ==
    \A w \in Workers :
        LET r == reqs[w]
        IN  /\ Checked(r) /\ wh.webhookSecret # <<>>
            => /\ ~HexShape(r.XHubSignature256) => r.sigValid = "false"
               /\ r.XHubSignature256 = Sha256Prefix \o
                    ToUpper(Digits(generateSignature(r.Body, wh.webhookSecret)))
                  => r.sigValid = "true"

C8_Witness ==
    /\ wh.webhookSecret = Secret1
    /\ reqs["w1"].Body = FullEvent
    /\ reqs["w1"].XHubSignature256 =
            Sha256Prefix \o ToUpper(Digits(generateSignature(FullEvent, Secret1)))
    /\ reqs["w1"].XHubSignature256 # generateSignature(FullEvent, Secret1)
    /\ reqs["w1"].sigValid = "true"

\* C9: a request that passed the parse is never rejected: whatever
\* storeWebhookEvent returned, the request ends acknowledged with 200.
C9_StoreFailureNotFatal ==
    \A w \in Workers :
        LET r == reqs[w]
        IN  "summary" \in Range(r.trace)
            => /\ r.pc \in {"Parsed", "PersistenceAttempted", "PersistenceSkipped",
                            "Acknowledged"}
               /\ r.status = IF r.pc = "Acknowledged" THEN StatusOK ELSE 0
               /\ r.storeErr \in {"none", "nil", "unique_violation",
                                  "connection error", "context deadline exceeded"}

C9_Witness ==
    /\ reqs["w1"].storeErr = "unique_violation"
    /\ reqs["w1"].pc = "Acknowledged"
    /\ reqs["w1"].status = StatusOK

\* C10: no two rows of the table have the same delivery id, and a store
\* attempt with a delivery id the table holds returns an error and leaves
\* the table as it was.
C10_Unique ==
    \A row1 \in webhook_events, row2 \in webhook_events :
        row1.delivery_id = row2.delivery_id => row1 = row2

C10_DuplicateFails ==
    \A w \in Workers :
        /\ reqs[w].pc = "Parsed"
        /\ reqs'[w].pc = "PersistenceAttempted"
        /\ \E row \in webhook_events : row.delivery_id = reqs[w].XGitHubDelivery
        => /\ webhook_events' = webhook_events
           /\ reqs'[w].storeErr \notin {"none", "nil"}

C10_DeliveryIDUnique == [](C10_Unique) /\ [][C10_DuplicateFails]_vars

C10_Witness ==
    /\ reqs["w1"].storeErr = "unique_violation"
    /\ \E row \in webhook_events :
          /\ row.delivery_id = reqs["w1"].XGitHubDelivery
          /\ row.payload # Jsonb(reqs["w1"].Body).text
          /\ row.event_type = "pull_request"

\* C11: of two requests in flight with the same delivery id and an event
\* type that is stored, both past the parse, neither is rejected and each
\* is answered 200 when it ends, and the table never holds more than one row
\* with their delivery id; and the handler neither waits nor looks the
\* delivery id up: each of the two goes from the parse to
\* storeWebhookEvent whatever the table holds and whatever the other is
\* doing, and it is the INSERT that returns the error for the second.
C11_SameDelivery(w1, w2) ==
    /\ w1 # w2
    /\ reqs[w1].XGitHubDelivery = reqs[w2].XGitHubDelivery
    /\ wh.dbConn # "nil"
    /\ \A w \in {w1, w2} :
          /\ "summary" \in Range(reqs[w].trace)
          /\ IsSupportedEvent(reqs[w].XGitHubEvent)

C11_AtMostOne ==
    \A w1 \in Workers, w2 \in Workers :
        C11_SameDelivery(w1, w2)
        => /\ Cardinality({row \in webhook_events :
                    row.delivery_id = reqs[w1].XGitHubDelivery}) <= 1
           /\ \A w \in {w1, w2} :
                 /\ reqs[w].pc # "Rejected"
                 /\ reqs[w].pc = "Acknowledged"
                    => /\ reqs[w].status = StatusOK
                       /\ "store" \in Range(reqs[w].trace)
                       /\ reqs[w].storeErr # "none"

C11_NoPreCheck ==
    \A w1 \in Workers, w2 \in Workers :
        /\ C11_SameDelivery(w1, w2)
        /\ reqs[w1].pc = "Parsed"
        /\ reqs'[w1] # reqs[w1]
        => /\ reqs'[w1].pc = "PersistenceAttempted"
           /\ "store" \in Range(reqs'[w1].trace)
           /\ (reqs'[w1].storeErr = "unique_violation")
              <=> (/\ webhook_events' = webhook_events
                   /\ reqs'[w1].storeErr \notin {"connection error",
                                                "context deadline exceeded"})

C11_ConcurrentDuplicates == [](C11_AtMostOne) /\ [][C11_NoPreCheck]_vars

C11_Witness ==
    /\ reqs["w1"].XGitHubDelivery = reqs["w2"].XGitHubDelivery
    /\ reqs["w1"].XGitHubEvent = "pull_request"
    /\ reqs["w2"].XGitHubEvent = "pull_request"
    /\ reqs["w1"].pc = "PersistenceAttempted"
    /\ reqs["w2"].pc = "PersistenceAttempted"
    /\ reqs["w1"].storeErr = "unique_violation"
    /\ reqs["w2"].storeErr = "nil"
    /\ Cardinality(webhook_events) = 1

\* The request has passed the signature check and the parse, the handler has
\* a connection and the event type of the request is one of the three.
C12_Eligible(r) ==
    /\ r.sigValid = "true"
    /\ wh.webhookSecret = <<>>
       \/ Authentic(wh.webhookSecret, r.Body, r.XHubSignature256)
    /\ r.event.err = FALSE
    /\ "summary" \in Range(r.trace)
    /\ wh.dbConn # "nil"
    /\ r.XGitHubEvent \in {"push", "issue_comment", "pull_request"}

\* C12: a request has called storeWebhookEvent only if it passed the
\* signature check and the parse, the handler has a connection and its
\* event type is in the allow-list; a request that meets these conditions
\* and is past the decision has called it; every other request ends without
\* a store attempt, without a storage error and without a storage log entry,
\* and the table and its sequence change only in the step in which such a
\* request calls storeWebhookEvent.
C12_AttemptedIffEligible ==
    \A w \in Workers :
        LET r == reqs[w]
            attempted == "store" \in Range(r.trace)
        IN  /\ attempted => C12_Eligible(r)
            /\ r.pc \in {"PersistenceAttempted", "PersistenceSkipped", "Acknowledged"}
               => (attempted <=> C12_Eligible(r))
            /\ ~attempted
               => /\ r.storeErr = "none"
                  /\ r.pc # "PersistenceAttempted"
                  /\ \A i \in DOMAIN r.log :
                        r.log[i][1] \notin
                            {"Failed to store webhook event in database: %v",
                             "Successfully stored %s event in database (delivery: %s)"}
            /\ attempted => r.storeErr # "none" /\ "skip" \notin Range(r.trace)

C12_OnlyAttemptsWrite ==
    \/ webhook_events' # webhook_events
    \/ webhook_events_id_seq' # webhook_events_id_seq
    => \E w \in Workers :
          /\ reqs[w].pc = "Parsed"
          /\ C12_Eligible(reqs[w])
          /\ reqs'[w].trace = Append(reqs[w].trace, "store")

C12_StoreAttempt == [](C12_AttemptedIffEligible) /\ [][C12_OnlyAttemptsWrite]_vars

C12_Witness ==
    /\ wh.dbConn # "nil"
    /\ wh.webhookSecret = Secret1
    /\ reqs["w1"].XGitHubEvent = "pull_request"
    /\ reqs["w1"].pc = "Acknowledged"
    /\ reqs["w1"].trace =
          <<"method", "read", "headers", "signature", "parse", "summary",
            "store", "respond">>
    /\ reqs["w1"].storeErr = "connection error"
    /\ webhook_events = {}

\* C13: every row of the table has one of the event types push,
\* issue_comment and pull_request; a request whose event-type header is
\* another text or is missing, once past the parse, makes no store attempt,
\* is not rejected and is answered 200 when it ends, also when the handler
\* has a connection; and no step of such a request changes the table or its
\* sequence.
C13_RowsAndAnswers ==
    /\ \A row \in webhook_events :
          row.event_type \in {"push", "issue_comment", "pull_request"}
    /\ \A w \in Workers :
          LET r == reqs[w]
          IN  /\ r.XGitHubEvent \notin {"push", "issue_comment", "pull_request"}
              /\ "summary" \in Range(r.trace)
              => /\ "store" \notin Range(r.trace)
                 /\ r.storeErr = "none"
                 /\ r.pc \in {"Parsed", "PersistenceSkipped", "Acknowledged"}
                 /\ r.pc = "Acknowledged"
                    => /\ r.status = StatusOK
                       /\ "skip" \in Range(r.trace)

C13_StoreUnchanged ==
    \A w \in Workers :
        /\ reqs'[w] # reqs[w]
        /\ reqs'[w].XGitHubEvent \notin {"push", "issue_comment", "pull_request"}
        => /\ webhook_events' = webhook_events
           /\ webhook_events_id_seq' = webhook_events_id_seq

NotStoredLog(r) ==
    <<"Event type %s is not stored in database (only push, issue_comment, and pull_request events are stored)",
      r.XGitHubEvent>>

\* C14: IsSupportedEvent is true of push, issue_comment and pull_request
\* and false of every other event type, ping and the empty text among them;
\* the allow-list has these three members in every state; and each of its
\* two calls in HandleWebhook has that result: with a connection a request
\* past the decision has called storeWebhookEvent exactly if its type is
\* one of the three, and it has logged that its type is not stored exactly
\* if it is none of them.
C14_Membership ==
    /\ {e \in DOMAIN SupportedEventTypes : SupportedEventTypes[e]}
       = {"push", "issue_comment", "pull_request"}
    /\ Cardinality(DOMAIN SupportedEventTypes) = 3
    /\ \A e \in EventTypes :
          IsSupportedEvent(e) <=> e \in {"push", "issue_comment", "pull_request"}
    /\ ~IsSupportedEvent("ping") /\ ~IsSupportedEvent("")
    /\ \A w \in Workers :
          LET r == reqs[w]
              listed == r.XGitHubEvent \in {"push", "issue_comment", "pull_request"}
          IN  r.pc \in {"PersistenceAttempted", "PersistenceSkipped", "Acknowledged"}
              => /\ wh.dbConn # "nil" => ("store" \in Range(r.trace) <=> listed)
                 /\ (\E i \in DOMAIN r.log : r.log[i] = NotStoredLog(r)) <=> ~listed

C14_Witness ==
    /\ wh.dbConn # "nil"
    /\ reqs["w1"].XGitHubEvent = "issues"
    /\ reqs["w1"].pc = "PersistenceSkipped"
    /\ \E row \in webhook_events : row.event_type = "issue_comment"

\* The repository full_name, the sender login and the action written in
\* each body that json.Unmarshal accepts, as nullable texts: NULL where the
\* member is missing or is not a string.
PayloadFields(body) ==
    CASE body = FullEvent ->
            [full_name |-> Text("a/b"), login |-> Text("u"), action |-> Text("opened")]
      [] body = OtherEvent ->
            [full_name |-> Text("c/d"), login |-> Text("v"), action |-> Text("closed")]
      [] body = UnknownSender ->
            [full_name |-> Text("a/b"), login |-> Text("unknown"),
             action |-> Text("opened")]
      [] body = NoAction ->
            [full_name |-> Text("a/b"), login |-> NullText, action |-> NullText]
      [] OTHER ->
            [full_name |-> NullText, login |-> NullText, action |-> NullText]

SuccessResponse ==
    "{\"message\":\"Webhook received and processed\",\"status\":\"success\"}"

\* C15: a POST request with a valid signature, a body that parses and an
\* event type that is stored, whose delivery id the table did not hold and
\* whose INSERT the database accepted, is answered 200 with status
\* "success", and from the INSERT on the table holds exactly one row with
\* its delivery id: the row has the event type of the header and the
\* repository full_name, the sender login and the action of the payload.
C15_EndToEnd ==
    \A w \in Workers :
        LET r == reqs[w]
            rows == {row \in webhook_events : row.delivery_id = r.XGitHubDelivery}
        IN  /\ r.Method = "POST"
            /\ Authentic(wh.webhookSecret, r.Body, r.XHubSignature256)
            /\ r.XGitHubEvent \in {"push", "issue_comment", "pull_request"}
            /\ r.storeErr = "nil"
            => /\ r.pc \in {"PersistenceAttempted", "Acknowledged"}
               /\ r.pc = "Acknowledged"
                  => r.status = StatusOK /\ r.response = SuccessResponse
               /\ Cardinality(rows) = 1
               /\ \A row \in rows :
                     /\ row.event_type = r.XGitHubEvent
                     /\ row.repository_name = PayloadFields(r.Body).full_name
                     /\ row.sender_login = PayloadFields(r.Body).login
                     /\ row.action = PayloadFields(r.Body).action

\* json.Valid on the bodies of the model: every body but the empty one and
\* the text "invalid json" is a JSON value.
Valid(body) == body \notin {EmptyBody, NotJSON}

\* C16: a request that reached the parse is rejected there with 400 only if
\* its body is not valid JSON, the empty body included; a request whose
\* body is valid JSON passes the parse, whichever members of the event the
\* body has.
C16_OnlyInvalidJSONFails ==
    \A w \in Workers :
        LET r == reqs[w]
        IN  "parse" \in Range(r.trace)
            => /\ (r.pc = "Rejected" /\ r.status = StatusBadRequest) <=> ~Valid(r.Body)
               /\ Valid(r.Body) => "summary" \in Range(r.trace) /\ ~r.event.err

SummaryLog(r, repoName, senderLogin) ==
    <<"Received %s event from %s (delivery: %s, sender: %s)",
      r.XGitHubEvent, repoName, r.XGitHubDelivery, senderLogin>>

\* C17: a request that reached the parse with the empty body is rejected
\* with 400 and writes no summary; one with the body "{}" passes the
\* parse with no action, no repository and no sender, its summary has
\* "unknown" for the repository and for the sender, it logs no action, and
\* it is answered 200 when it ends.
C17_EmptyBodyAndEmptyObject ==
    \A w \in Workers :
        LET r == reqs[w]
        IN  "parse" \in Range(r.trace)
            => /\ r.Body = EmptyBody
                  => /\ r.pc = "Rejected"
                     /\ r.status = StatusBadRequest
                     /\ r.response = "Invalid JSON payload"
                     /\ "summary" \notin Range(r.trace)
                     /\ r.log = << <<"Error parsing JSON payload: %v", "json error">> >>
               /\ r.Body = EmptyObject
                  => /\ r.pc # "Rejected"
                     /\ r.event.Action = ""
                     /\ r.event.Repository.nil /\ r.event.Sender.nil
                     /\ r.repoName = "unknown" /\ r.senderLogin = "unknown"
                     /\ r.log[1] = SummaryLog(r, "unknown", "unknown")
                     /\ \A i \in DOMAIN r.log : r.log[i][1] # "Event action: %s"
                     /\ r.pc = "Acknowledged"
                        => r.status = StatusOK /\ r.response = SuccessResponse

C17_Witness ==
    /\ reqs["w1"].Body = EmptyObject
    /\ reqs["w1"].XGitHubEvent = "ping"
    /\ reqs["w1"].pc = "Acknowledged"
    /\ reqs["w1"].status = StatusOK
    /\ Len(reqs["w1"].log) = 2

\* C18: a request whose body has a repository full_name and a sender login
\* that are not strings passes the parse and is answered 200 when it ends;
\* its repository name and sender login are "unknown" in the summary, and
\* the row stored for it has NULL for both.
C18_MismatchIsAbsent ==
    /\ \A w \in Workers :
          LET r == reqs[w]
          IN  r.Body = NonStringFields /\ "parse" \in Range(r.trace)
              => /\ r.pc # "Rejected"
                 /\ ~r.event.Repository.nil /\ ~r.event.Sender.nil
                 /\ r.repoName = "unknown" /\ r.senderLogin = "unknown"
                 /\ r.log[1] = SummaryLog(r, "unknown", "unknown")
                 /\ r.pc = "Acknowledged"
                    => r.status = StatusOK /\ r.response = SuccessResponse
    /\ \A row \in webhook_events :
          row.payload = Jsonb(NonStringFields).text
          => row.repository_name = NullText /\ row.sender_login = NullText

C18_Witness ==
    /\ reqs["w1"].Body = NonStringFields
    /\ reqs["w1"].pc = "Acknowledged"
    /\ reqs["w1"].storeErr = "nil"
    /\ \E row \in webhook_events :
          /\ row.payload = Jsonb(NonStringFields).text
          /\ row.sender_login = NullText
          /\ row.event_type = "issue_comment"

\* C19: a request whose method is not POST is rejected with 405 in the
\* first step of the handler, whatever its headers and its body are: its
\* body is not read, its signature is not checked, its body is not parsed,
\* it writes no log entry and it makes no store attempt; and no step of
\* such a request changes the table or its sequence.
C19_Rejected ==
    \A w \in Workers :
        LET r == reqs[w]
        IN  r.pc \notin {"idle", "Received"} /\ r.Method # "POST"
            => /\ r.pc = "Rejected"
               /\ r.status = StatusMethodNotAllowed
               /\ r.response = "Only POST method is allowed"
               /\ r.trace = <<"method">>
               /\ r.sigValid = "unchecked"
               /\ r.event = ZeroEvent
               /\ r.log = <<>>
               /\ r.storeErr = "none"

C19_NoEffect ==
    \A w \in Workers :
        reqs'[w] # reqs[w] /\ reqs'[w].Method # "POST"
        => /\ webhook_events' = webhook_events
           /\ webhook_events_id_seq' = webhook_events_id_seq

C19_MethodFirst == [](C19_Rejected) /\ [][C19_NoEffect]_vars

C19_Witness ==
    /\ wh.webhookSecret = Secret1
    /\ wh.dbConn # "nil"
    /\ reqs["w1"].Method = "GET"
    /\ reqs["w1"].Body = FullEvent
    /\ reqs["w1"].XGitHubEvent = "pull_request"
    /\ reqs["w1"].XHubSignature256 = generateSignature(FullEvent, Secret1)
    /\ reqs["w1"].status = StatusMethodNotAllowed
    /\ webhook_events = {}

SummaryFormat == "Received %s event from %s (delivery: %s, sender: %s)"
ActionFormat == "Event action: %s"
StoreFormats ==
    {"Failed to store webhook event in database: %v",
     "Successfully stored %s event in database (delivery: %s)"}

\* C21: a request that passed the signature check and whose body
\* json.Unmarshal refuses ends at the parse: it is rejected with 400 and
\* "Invalid JSON payload", not with the 401 and the text of a signature
\* failure, its only log entry is the parse error, it writes no summary, it
\* makes no store attempt, and its steps leave the table as it was.
C21_Rejected400 ==
    \A w \in Workers :
        LET r == reqs[w]
        IN  /\ r.sigValid = "true"
            /\ "parse" \in Range(r.trace)
            /\ r.Body \in {EmptyBody, NotJSON, NumberAction, StringRepository, JSONArray}
            => /\ r.pc = "Rejected"
               /\ r.status = StatusBadRequest
               /\ r.status # StatusUnauthorized
               /\ r.response = "Invalid JSON payload"
               /\ r.response # "Invalid signature"
               /\ r.log = << <<"Error parsing JSON payload: %v", "json error">> >>
               /\ \A i \in DOMAIN r.log : r.log[i][1] # SummaryFormat
               /\ r.trace = <<"method", "read", "headers", "signature", "parse">>
               /\ r.storeErr = "none"

C21_NoWrite ==
    \A w \in Workers :
        /\ reqs'[w] # reqs[w]
        /\ reqs'[w].Body \in {EmptyBody, NotJSON, NumberAction, StringRepository, JSONArray}
        => /\ webhook_events' = webhook_events
           /\ webhook_events_id_seq' = webhook_events_id_seq

C21_MalformedPayload == [](C21_Rejected400) /\ [][C21_NoWrite]_vars

C21_Witness ==
    /\ wh.webhookSecret = Secret1
    /\ wh.dbConn # "nil"
    /\ reqs["w1"].Body = NotJSON
    /\ reqs["w1"].XHubSignature256 = generateSignature(NotJSON, Secret1)
    /\ reqs["w1"].XGitHubEvent = "push"
    /\ reqs["w1"].sigValid = "true"
    /\ reqs["w1"].status = StatusBadRequest

OrUnknown(text) == IF text.Valid THEN text.String ELSE "unknown"

\* The positions in the log of a request of the entries with a format.
Entries(r, formats) == {i \in DOMAIN r.log : r.log[i][1] \in formats}

\* C23: a request with a valid signature that has passed the parse has
\* written the summary once, as its first entry, with the event type, the
\* repository name of the payload or "unknown", the delivery id and the
\* sender login of the payload or "unknown": it has it before the store
\* decision and keeps it whether the store is attempted, skipped, succeeds
\* or fails, and every entry about the store comes after it.  The action is
\* logged, right after the summary, exactly if the payload has one.  A
\* request that has not passed the parse has no summary.
C23_SummaryLogged ==
    \A w \in Workers :
        LET r == reqs[w]
            fields == PayloadFields(r.Body)
            storeEntries == Entries(r, StoreFormats \cup {NotStoredLog(r)[1]})
        IN  /\ r.pc \in {"Parsed", "PersistenceAttempted", "PersistenceSkipped",
                         "Acknowledged"}
               => /\ r.log[1] = <<SummaryFormat, r.XGitHubEvent,
                                  OrUnknown(fields.full_name), r.XGitHubDelivery,
                                  OrUnknown(fields.login)>>
                  /\ Entries(r, {SummaryFormat}) = {1}
                  /\ Entries(r, {ActionFormat}) = IF fields.action.Valid THEN {2} ELSE {}
                  /\ fields.action.Valid => r.log[2] = <<ActionFormat, fields.action.String>>
                  /\ \A i \in storeEntries : i > 1 /\ i \notin Entries(r, {ActionFormat})
                  /\ \A i \in storeEntries, j \in Entries(r, {ActionFormat}) : j < i
                  /\ r.pc = "Parsed" => storeEntries = {}
                  /\ r.pc = "PersistenceAttempted" => Cardinality(storeEntries) = 1
            /\ r.pc \notin {"Parsed", "PersistenceAttempted", "PersistenceSkipped",
                            "Acknowledged"}
               => Entries(r, {SummaryFormat, ActionFormat}) = {}

C23_Witness ==
    /\ reqs["w1"].Body = NoAction
    /\ reqs["w1"].XGitHubEvent = "issue_comment"
    /\ reqs["w1"].pc = "PersistenceAttempted"
    /\ reqs["w1"].storeErr = "connection error"
    /\ reqs["w1"].log =
          << <<SummaryFormat, "issue_comment", "a/b", "d1", "unknown">>,
             <<"Failed to store webhook event in database: %v", "connection error">> >>

\* C24: a request refused by the signature check has one log entry, the
\* fixed text "Invalid signature for delivery %s" with one argument, the
\* delivery id: whatever the secret, the signature header and the body
\* are, the log holds nothing else, so neither the secret, nor the header,
\* nor the digest computed for the body, nor any part of the body is
\* written.
C24_OnlyDeliveryIDLogged ==
    \A w \in Workers :
        LET r == reqs[w]
        IN  r.sigValid = "false"
            => /\ r.status = StatusUnauthorized
               /\ Len(r.log) = 1
               /\ Len(r.log[1]) = 2
               /\ r.log[1][1] = "Invalid signature for delivery %s"
               /\ r.log[1][2] = r.XGitHubDelivery
               /\ r.event = ZeroEvent /\ r.repoName = "" /\ r.senderLogin = ""

C24_Witness ==
    /\ wh.webhookSecret = LongSecret
    /\ reqs["w1"].Body = FullEvent
    /\ reqs["w1"].XGitHubDelivery = "d2"
    /\ reqs["w1"].XHubSignature256 = generateSignature(FullEvent, Secret2)
    /\ reqs["w1"].sigValid = "false"
    /\ reqs["w1"].log = << <<"Invalid signature for delivery %s", "d2">> >>

\* C25: every request the server accepted ends, answered: from Received it
\* reaches Acknowledged or Rejected with its status written, also when the
\* database never answers, because the store call returns when its
\* deadline passes; a request whose store call ended on the deadline is then
\* acknowledged with 200 like every other, its event logged and not
\* stored by that call; and the status of a request, once written, is
\* written once: it stays as it is until the worker takes its next request.
C25_OneResponse ==
    \A w \in Workers :
        reqs[w].status # 0
        => \/ reqs'[w] = reqs[w]
           \/ reqs'[w].pc = "Received" /\ accepted' = accepted + 1

C25_Degraded ==
    \A w \in Workers :
        reqs[w].storeErr = "context deadline exceeded"
        => /\ reqs[w].pc \in {"PersistenceAttempted", "Acknowledged"}
           /\ reqs[w].pc = "Acknowledged" => reqs[w].status = StatusOK
           /\ \E i \in DOMAIN reqs[w].log : reqs[w].log[i][1] = SummaryFormat

Transitions ==
    {<<"Received", "Authenticated">>, <<"Received", "Rejected">>,
     <<"Authenticated", "Parsed">>, <<"Authenticated", "Rejected">>,
     <<"Parsed", "PersistenceAttempted">>, <<"Parsed", "PersistenceSkipped">>,
     <<"PersistenceAttempted", "Acknowledged">>,
     <<"PersistenceSkipped", "Acknowledged">>}

Arrivals == {<<"idle", "Received">>, <<"Acknowledged", "Received">>,
             <<"Rejected", "Received">>}

\* C26: a request moves only along Received -> Authenticated -> Parsed ->
\* PersistenceAttempted or PersistenceSkipped -> Acknowledged, or into
\* Rejected from Received or from Authenticated; a request that is
\* Acknowledged or Rejected does not change any more (its worker only takes
\* the next request); no request is both, having either the 200 or one of
\* the error statuses; and a request that has reached Parsed is never
\* rejected.
C26_Step ==
    \A w \in Workers :
        reqs'[w] # reqs[w]
        => /\ <<reqs[w].pc, reqs'[w].pc>> \in Transitions \cup Arrivals
           /\ <<reqs[w].pc, reqs'[w].pc>> \in Transitions
              => /\ reqs'[w].Method = reqs[w].Method
                 /\ reqs'[w].Body = reqs[w].Body
                 /\ reqs'[w].XGitHubDelivery = reqs[w].XGitHubDelivery
                 /\ Len(reqs'[w].trace) > Len(reqs[w].trace)
           /\ <<reqs[w].pc, reqs'[w].pc>> \in Arrivals
              => reqs'[w].trace = <<>> /\ accepted' = accepted + 1

C26_States ==
    \A w \in Workers :
        LET r == reqs[w]
        IN  /\ r.pc \in {"idle", "Received", "Authenticated", "Parsed",
                         "PersistenceAttempted", "PersistenceSkipped",
                         "Acknowledged", "Rejected"}
            /\ r.pc = "Acknowledged"
               <=> (r.status = StatusOK /\ "respond" \in Range(r.trace))
            /\ r.pc = "Rejected"
               <=> r.status \in {StatusBadRequest, StatusUnauthorized,
                                 StatusMethodNotAllowed}
            /\ r.pc = "Rejected"
               => /\ "summary" \notin Range(r.trace)
                  /\ "respond" \notin Range(r.trace)
            /\ "summary" \in Range(r.trace) => r.pc # "Rejected"

C26_StateMachine == [](C26_States) /\ [][C26_Step]_vars

C26_Witness ==
    /\ reqs["w1"].pc = "Acknowledged"
    /\ reqs["w1"].trace =
          <<"method", "read", "headers", "signature", "parse", "summary",
            "skip", "respond">>
    /\ reqs["w1"].XGitHubEvent = "pull_request"
    /\ wh.dbConn = "nil"
    /\ accepted = 2

\* C27: the handler's secret and connection handle are never written after
\* construction, and with every request carrying a delivery id of its own
\* the answer and the store outcome of each request are those of the
\* requests run one after another: the request is answered 200 and, its
\* event type being a stored one, its INSERT returned no error and its row
\* is in the table.
C27_SameAsSequential ==
    \A w \in Workers :
        LET r == reqs[w]
        IN  /\ r.pc = "Acknowledged" => r.status = StatusOK
            /\ r.pc \in {"PersistenceAttempted", "Acknowledged"}
               /\ r.storeErr \notin {"none", "pending"}
               => /\ r.storeErr = "nil"
                  /\ \E row \in webhook_events :
                        /\ row.delivery_id = r.XGitHubDelivery
                        /\ row.payload = Jsonb(r.Body).text

C27_ConfigurationFixed == wh' = wh

C27_NoSharedState == [](C27_SameAsSequential) /\ [][C27_ConfigurationFixed]_vars

\* What storeWebhookEvent can return.
StoreResults == {"nil", "unique_violation", "connection error",
                 "context deadline exceeded"}

\* The request of worker w as it arrived.
Arrived(r) ==
    Request(r.Method, r.Body, r.XGitHubEvent, r.XGitHubDelivery, r.XHubSignature256)

\* The entries of a log that do not report the result of a store attempt.
WithoutStoreEntries(log) == SelectSeq(log, LAMBDA e : e[1] \notin StoreFormats)

\* The handler of the state with a connection.
WithConn == [wh EXCEPT !.dbConn = "conn"]

\* A handler without a connection never calls the store and the table stays
\* empty.
C28_NoAttempt ==
    wh.dbConn = "nil"
    => /\ webhook_events = {}
       /\ webhook_events_id_seq = 0
       /\ \A w \in Workers :
             /\ reqs[w].pc # "PersistenceAttempted"
             /\ reqs[w].storeErr = "none"
             /\ "store" \notin Range(reqs[w].trace)
             /\ Entries(reqs[w], StoreFormats) = {}

\* C28 as stated: without a connection no store is attempted and the table
\* stays empty, and a served request has the status, the response and the
\* log it would have with a connection, whatever the store returns.
C28_ExactlyAsWithPersistence ==
    /\ C28_NoAttempt
    /\ wh.dbConn = "nil"
       => \A w \in Workers :
             reqs[w].pc \in Terminal
             => \A err \in StoreResults :
                   LET r == reqs[w]
                       c == HandleWebhook(WithConn, Arrived(r),
                                          r.response = "Error reading request body", err)
                   IN  <<c.pc, c.status, c.response, c.log>>
                       = <<r.pc, r.status, r.response, r.log>>

\* C28: without a connection no store is attempted and the table stays
\* empty, and a served request has the status and the response it would
\* have with a connection, whatever the store returns, and the same log
\* but for the entry that reports the result of the store attempt: that
\* entry is written only with a connection.
C28_DisabledStorage ==
    /\ C28_NoAttempt
    /\ wh.dbConn = "nil"
       => \A w \in Workers :
             reqs[w].pc \in Terminal
             => \A err \in StoreResults :
                   LET r == reqs[w]
                       c == HandleWebhook(WithConn, Arrived(r),
                                          r.response = "Error reading request body", err)
                   IN  <<c.pc, c.status, c.response, WithoutStoreEntries(c.log)>>
                       = <<r.pc, r.status, r.response, r.log>>

C28_Witness ==
    /\ wh.dbConn = "nil"
    /\ reqs["w1"].pc = "Acknowledged"
    /\ reqs["w1"].XGitHubEvent = "pull_request"
    /\ reqs["w1"].Body = FullEvent
    /\ reqs["w1"].status = StatusOK
    /\ Len(reqs["w1"].log) = 2
    /\ webhook_events = {}

\* The four rejections of HandleWebhook: status and text.
Rejections ==
    {<<StatusMethodNotAllowed, "Only POST method is allowed">>,
     <<StatusBadRequest, "Error reading request body">>,
     <<StatusUnauthorized, "Invalid signature">>,
     <<StatusBadRequest, "Invalid JSON payload">>}

\* What requests share: the handler, the table and its id sequence.
Shared == <<wh, webhook_events, webhook_events_id_seq>>

\* A rejected request has one of the four rejections, has not called the
\* store, and a request that is served to its end has the outcome
\* HandleWebhook gives it from the handler, the request itself and the
\* result of its own store call: nothing of an earlier request enters it.
C29_OwnOutcome ==
    \A w \in Workers :
        LET r == reqs[w]
        IN  /\ r.pc = "Rejected"
               => /\ <<r.status, r.response>> \in Rejections
                  /\ "store" \notin Range(r.trace)
                  /\ r.storeErr = "none"
            /\ r.pc \in Terminal
               => LET c == HandleWebhook(wh, Arrived(r),
                              r.response = "Error reading request body", r.storeErr)
                  IN  <<c.pc, c.status, c.response, c.log>>
                      = <<r.pc, r.status, r.response, r.log>>

\* Every step of a request up to its rejection, the rejection included,
\* leaves the handler, the table and the id sequence as they were, and
\* leaves the requests of the other workers as they were.
C29_Frame ==
    \A w \in Workers :
        /\ reqs'[w] # reqs[w]
        /\ reqs'[w].pc \in {"Received", "Authenticated", "Parsed", "Rejected"}
        => /\ Shared' = Shared
           /\ \A v \in Workers \ {w} : reqs'[v] = reqs[v]

\* C29: a request that ends in one of the four rejections (405, 400 on an
\* unreadable body, 401, 400 on malformed JSON) leaves the table and the
\* handler unchanged, and the outcome of a later request is what it is
\* without the rejected one: it depends on the handler, on the request and
\* on the table only.
C29_FailureScoped == [](C29_OwnOutcome) /\ [][C29_Frame]_vars

C29_Witness ==
    /\ reqs["w1"].pc = "Rejected"
    /\ <<reqs["w1"].status, reqs["w1"].response>> = <<StatusBadRequest, "Invalid JSON payload">>
    /\ webhook_events # {}
    /\ accepted = MaxRequests

\* The map holds the three types, each with the value true, and no other
\* key.
C30_ExactlyThree ==
    /\ DOMAIN SupportedEventTypes = {"push", "issue_comment", "pull_request"}
    /\ \A e \in DOMAIN SupportedEventTypes : SupportedEventTypes[e] = TRUE

\* No step writes the map.
C30_NoWrite == SupportedEventTypes' = SupportedEventTypes

\* C30: the allow-list is the same in every reachable state, the keys push,
\* issue_comment and pull_request with the value true, and no step of the
\* program adds a key, removes one or changes a value: not a lookup of a
\* listed type, not a lookup of a type that is not listed, not a store.
C30_AllowListImmutable == [](C30_ExactlyThree) /\ [][C30_NoWrite]_vars

C30_Witness ==
    /\ reqs["w1"].pc = "Acknowledged"
    /\ reqs["w1"].XGitHubEvent = "ping"
    /\ \E row \in webhook_events : row.event_type = "push"
    /\ accepted = MaxRequests
    /\ SupportedEventTypes = SupportedEventTypesLiteral

\* The bodies of the signature specification other than `body`.
OtherBodies(body) == {FullEvent, EmptyObject} \ {body}

\* The beginnings of a header that stop short of its end.
Truncated(good) == {SubSeq(good, 1, n) : n \in 0..(Len(good) - 1)}

\* C33: with a secret that is not empty, validateSignature returns true
\* only for a header that is "sha256=" followed by the hex digits of the
\* whole HMAC-SHA256 of the payload under the secret.  So a request that
\* has been through the check with the header computed for another
\* payload, with the header "sha256=" alone, or with the correct header cut
\* short anywhere, was refused; and the function refuses each of these for
\* the handler and the payload of the request.
C33_CompleteDigestOnly ==
    \A w \in Workers :
        LET r == reqs[w]
            secret == wh.webhookSecret
            good == generateSignature(r.Body, secret)
        IN  Checked(r) /\ secret # <<>>
            => /\ r.sigValid = "true"
                  => /\ HasPrefix(r.XHubSignature256, Sha256Prefix)
                     /\ Len(Digits(r.XHubSignature256)) = 2 * Size
                     /\ ~DecodeString(Digits(r.XHubSignature256)).err
                     /\ DecodeString(Digits(r.XHubSignature256)).bytes
                        = HMACSum(secret, r.Body)
               /\ r.XHubSignature256 \in
                     {generateSignature(b, secret) : b \in OtherBodies(r.Body)}
                     \cup {Sha256Prefix} \cup Truncated(good)
                  => r.sigValid = "false" /\ r.status = StatusUnauthorized
               /\ \A b \in OtherBodies(r.Body) :
                     ~validateSignature(wh, r.Body, generateSignature(b, secret))
               /\ ~validateSignature(wh, r.Body, Sha256Prefix)
               /\ \A h \in Truncated(good) : ~validateSignature(wh, r.Body, h)

C33_Witness ==
    /\ wh.webhookSecret = Secret1
    /\ reqs["w1"].Body = FullEvent
    /\ reqs["w1"].XHubSignature256
       = SubSeq(generateSignature(FullEvent, Secret1), 1,
                Len(generateSignature(FullEvent, Secret1)) - 2)
    /\ reqs["w1"].sigValid = "false"
    /\ reqs["w1"].status = StatusUnauthorized

\* C34: the signature check, the parse and the store work on the one read
\* of the body, and the payload of the record a request has stored is that
\* body byte for byte.
C34_RawPayloadStored ==
    \A w \in Workers :
        LET r == reqs[w]
        IN  /\ r.pc \in {"PersistenceAttempted", "Acknowledged"}
            /\ r.storeErr = "nil"
            => /\ r.sigValid = "true"
               /\ validateSignature(wh, r.Body, r.XHubSignature256)
               /\ r.event = Unmarshal(r.Body)
               /\ \E row \in webhook_events :
                     /\ row.delivery_id = r.XGitHubDelivery
                     /\ row.payload = r.Body

\* A column of a record is present exactly if the payload carried the
\* string, and then holds it.
SameText(column, carried) ==
    /\ column.Valid <=> carried.Valid
    /\ column.Valid => column.String = carried.String

\* C35: in the record a request has stored, the repository name is present
\* exactly if the payload has a string repository.full_name, and is then
\* that string; so are the sender login with sender.login and the action
\* with action; each is absent exactly if the payload has no such string.
C35_OptionalColumns ==
    \A w \in Workers :
        LET r == reqs[w]
            carried == PayloadFields(r.Body)
        IN  /\ r.pc \in {"PersistenceAttempted", "Acknowledged"}
            /\ r.storeErr = "nil"
            => \A row \in webhook_events :
                  row.delivery_id = r.XGitHubDelivery
                  => /\ SameText(row.repository_name, carried.full_name)
                     /\ SameText(row.sender_login, carried.login)
                     /\ SameText(row.action, carried.action)

\* The rows stored for requests without the delivery id header.
HeaderLess(table) == {row \in table : row.delivery_id = ""}

\* The table holds at most one event without a delivery id, and a request
\* without the header that has passed the parse with a stored type, on a
\* handler with a connection, goes to the store like any other and is
\* acknowledged with 200 whatever the store returned.
C36_AtMostOne ==
    /\ Cardinality(HeaderLess(webhook_events)) <= 1
    /\ \A w \in Workers :
          LET r == reqs[w]
          IN  /\ r.XGitHubDelivery = ""
              /\ wh.dbConn # "nil"
              /\ IsSupportedEvent(r.XGitHubEvent)
              /\ r.pc \in {"PersistenceAttempted", "PersistenceSkipped", "Acknowledged"}
              => /\ "store" \in Range(r.trace)
                 /\ r.storeErr # "none"
                 /\ r.storeErr = "nil" => HeaderLess(webhook_events) # {}
                 /\ r.pc = "Acknowledged" => r.status = StatusOK

\* The store step of a request without the header: the first one the
\* database accepts adds a row keyed by the empty string, and every one
\* after it returns an error and leaves the table as it was.
C36_KeyedByEmpty ==
    \A w \in Workers :
        /\ reqs[w].XGitHubDelivery = ""
        /\ reqs[w].pc = "Parsed"
        /\ reqs'[w].pc = "PersistenceAttempted"
        => /\ HeaderLess(webhook_events) # {}
              => /\ webhook_events' = webhook_events
                 /\ reqs'[w].storeErr \notin {"none", "nil"}
           /\ reqs'[w].storeErr = "nil"
              => /\ HeaderLess(webhook_events) = {}
                 /\ \E row \in webhook_events' :
                       /\ webhook_events' = webhook_events \cup {row}
                       /\ row.delivery_id = ""
                       /\ row.event_type = reqs[w].XGitHubEvent

Times(r, step) == Cardinality({i \in DOMAIN r.trace : r.trace[i] = step})

\* A request has called the store at most once and has at most one log
\* entry about it, and the table holds at most one row, and the sequence
\* has given at most one id, for each request accepted.
C37_AtMostOnce ==
    /\ \A w \in Workers :
          /\ Times(reqs[w], "store") <= 1
          /\ Cardinality(Entries(reqs[w], StoreFormats)) <= 1
    /\ Cardinality(webhook_events) <= accepted
    /\ webhook_events_id_seq <= accepted

\* The step after a store attempt, failed or not, is the acknowledgment
\* with 200, and it leaves the table as it was; and no step adds more than
\* one row.
C37_ThenAcknowledged ==
    /\ \A w \in Workers :
          /\ reqs[w].pc = "PersistenceAttempted"
          /\ reqs[w].storeErr # "pending"
          /\ reqs'[w] # reqs[w]
          => /\ reqs'[w].pc = "Acknowledged"
             /\ reqs'[w].status = StatusOK
             /\ reqs'[w].trace = Append(reqs[w].trace, "respond")
             /\ reqs'[w].storeErr = reqs[w].storeErr
             /\ webhook_events' = webhook_events
             /\ webhook_events_id_seq' = webhook_events_id_seq
    /\ Cardinality(webhook_events') <= Cardinality(webhook_events) + 1
    /\ webhook_events \subseteq webhook_events'

\* C37: a request makes at most one store attempt and does not retry: after
\* an attempt that failed or timed out it goes straight to the
\* acknowledgment, so a request adds at most one record to the table.
C37_NoRetry == [](C37_AtMostOnce) /\ [][C37_ThenAcknowledged]_vars

C37_Witness ==
    /\ reqs["w1"].pc = "Acknowledged"
    /\ reqs["w1"].storeErr = "context deadline exceeded"
    /\ reqs["w1"].status = StatusOK
    /\ Times(reqs["w1"], "store") = 1
    /\ accepted = 1
    /\ webhook_events = {}

\* Whether a text variable of the environment is set to a text that is
\* not empty.
Configured(e, name) ==
    IF name \in DOMAIN e THEN e[name] # "" ELSE FALSE

\* The step of NewWebhookServer: the port of the server is "8080" if PORT is
\* unset or empty and the value of PORT otherwise, and its secret is the
\* value of GITHUB_WEBHOOK_SECRET (empty if it is unset).
C31_FromEnvironment ==
    main = "start" /\ main' = "constructed"
    => /\ ~ws'.nil
       /\ ws'.port = IF "PORT" \notin DOMAIN env THEN "8080"
                     ELSE IF env["PORT"] = "" THEN "8080"
                     ELSE env["PORT"]
       /\ ws'.webhookSecret = IF "GITHUB_WEBHOOK_SECRET" \in DOMAIN env
                              THEN env["GITHUB_WEBHOOK_SECRET"] ELSE <<>>

\* Once the server is constructed no step changes its port or its secret,
\* whatever happens to the environment; Start gives the secret to the
\* handler, and the handler keeps it.
C31_Fixed ==
    /\ ~ws.nil => ws'.port = ws.port /\ ws'.webhookSecret = ws.webhookSecret
    /\ main \in {"listening", "exited"} => wh' = wh

\* There is no server before NewWebhookServer has returned; the server has
\* a port from then on, Start announces that port, and the handler of a
\* process that listens has the secret of the server.
C31_ServerState ==
    /\ main = "start" <=> ws.nil
    /\ ~ws.nil => ws.port # ""
    /\ main \in {"listening", "exited"}
       => /\ wh.webhookSecret = ws.webhookSecret
          /\ <<"Starting choochoo webhook server on port %s", ws.port>>
             \in Range(startup)

\* C31: the port is "8080" when PORT is unset or empty and the value of
\* PORT otherwise, the secret is the value of GITHUB_WEBHOOK_SECRET as it
\* is, and both stay what NewWebhookServer made them.
C31_Configuration ==
    [](C31_ServerState) /\ [][C31_FromEnvironment /\ C31_Fixed]_vars

C31_Witness ==
    /\ main = "listening"
    /\ ws.port = "3000"
    /\ ws.webhookSecret = Secret1
    /\ DOMAIN env = {"PORT"}
    /\ env["PORT"] = ""
    /\ reqs["w1"].pc = "Rejected"
    /\ reqs["w1"].status = StatusUnauthorized

\* C32: HandleRoot answers the path "/" with 200 and the list of the
\* endpoints, and every other path with 404, whatever the method; it logs
\* nothing and leaves the rest of the state alone.
C32_RootOnly ==
    /\ \A m \in {"GET", "POST"} :
          \A p \in RootPaths \cup {"/webhook", "/health", "/index.html", ""} :
              LET served == HandleRoot(PathRequest(m, p))
              IN  /\ served.status = IF p = "/" THEN StatusOK ELSE StatusNotFound
                  /\ p = "/" <=> served.response =
                        "Choochoo GitHub Webhook Server\nEndpoints:\n- POST /webhook - GitHub webhook endpoint\n- GET /health - Health check\n"
    /\ \A w \in Workers :
          LET r == reqs[w]
          IN  /\ r.pc = "Served" <=> "root" \in Range(r.trace)
              /\ r.pc = "Served"
                 => /\ r.URLPath # "/webhook"
                    /\ r.status = IF r.URLPath = "/" THEN StatusOK ELSE StatusNotFound
                    /\ r.URLPath # "/" => r.response = "404 page not found\n"
                    /\ r.log = <<>>
                    /\ r.trace = <<"root">>

C32_Witness ==
    /\ reqs["w1"].pc = "Served"
    /\ reqs["w1"].URLPath = "/invalid"
    /\ reqs["w1"].status = StatusNotFound
    /\ accepted = 2

\* NewWebhookServer logged that the connection failed.
FailedAtStartup ==
    \E i \in DOMAIN startup :
        startup[i][1] = "Warning: Failed to connect to database: %v. Webhooks will be logged but not stored."

\* The handler of the storage-disabled configuration with the server's
\* secret.
Disabled == NewWebhookHandler(ws.webhookSecret, "nil")

\* After a connection that failed at startup the server and its handler
\* have no handle, the table is empty, no request has called the store,
\* and every request served has the outcome the storage-disabled handler
\* gives it.
C38_Disabled ==
    FailedAtStartup
    => /\ ~ws.nil /\ ws.dbConn = "nil"
       /\ main \in {"listening", "exited"} => wh = Disabled
       /\ webhook_events = {} /\ webhook_events_id_seq = 0
       /\ \A w \in Workers :
             LET r == reqs[w]
             IN  /\ "store" \notin Range(r.trace)
                 /\ r.storeErr = "none"
                 /\ r.pc \in {"Acknowledged", "Rejected"}
                    => LET c == HandleWebhook(Disabled, Arrived(r),
                                   r.response = "Error reading request body", "nil")
                       IN  <<c.pc, c.status, c.response, c.log>>
                           = <<r.pc, r.status, r.response, r.log>>

\* NewWebhookServer with DATABASE_URL set and a database that does not
\* answer logs the failure and returns a server; and once it has, no step
\* gives the server or the handler a connection or logs another attempt,
\* also when the database has come up.
C38_NoReconnect ==
    /\ main = "start" /\ main' = "constructed"
       /\ Configured(env, "DATABASE_URL") /\ postgres = "down"
       => FailedAtStartup' /\ ~ws'.nil /\ ws'.dbConn = "nil"
    /\ FailedAtStartup
       => /\ FailedAtStartup'
          /\ ws'.dbConn = "nil"
          /\ wh'.dbConn = "nil"
          /\ <<"Successfully connected to database">> \notin Range(startup')

\* C38: with a persistence descriptor configured and a connection that
\* fails at startup, the server starts without a handle; requests are then
\* logged and acknowledged as in the storage-disabled configuration and
\* never stored, and the connection is not attempted again.
C38_StartupFailure == [](C38_Disabled) /\ [][C38_NoReconnect]_vars

C38_Witness ==
    /\ FailedAtStartup
    /\ main = "listening"
    /\ postgres = "up"
    /\ Configured(env, "DATABASE_URL")
    /\ reqs["w1"].pc = "Acknowledged"
    /\ reqs["w1"].XGitHubEvent = "push"
    /\ reqs["w1"].status = StatusOK
    /\ webhook_events = {}

====
